---------------------------- MODULE Spec2Model ----------------------------
(***************************************************************************)
(* Verification model of the audio-spectrum-live real-time core            *)
(* (rust-core/src): the SampleChannel ring buffer, the two FIR filter      *)
(* implementations, and the AudioProcessor with its processing thread,     *)
(* control surface, polling consumer and device callbacks.                 *)
(*                                                                         *)
(* The specifications of the module:                                       *)
(*   SpecChan  one producer and one consumer on an AudioRingBuffer         *)
(*   SpecFir   FirFilter and FastFirFilter fed the same blocks             *)
(*   Spec      AudioProcessor: processing thread, control calls, callbacks *)
(*   SpecGate  one NoiseGate: samples, parameter setters, reset            *)
(*   SpecDesign  filter design and the two-slot filter chain               *)
(*   SpecLife  start, stop, monitoring and every thread they spawn         *)
(*   SpecTdf   one FirFilter and one FastFirFilter, call by call            *)
(*   SpecLoop  the processing loop, block by block, and the control flags   *)
(*   SpecLoopFair  the same under fair scheduling of the threads            *)
(*   SpecCoef  the coefficient vectors of the three FIR designers          *)
(*   SpecSnap  the samples of each block, the snapshot slot, get_results   *)
(***************************************************************************)
EXTENDS Integers, Sequences, FiniteSets, TLC

Min(a, b) == IF a <= b THEN a ELSE b

(***************************************************************************)
(* State.  The variables of every part; each specification moves the       *)
(* variables of its own part and leaves the others at rest.                *)
(***************************************************************************)

\* SampleChannel: an AudioRingBuffer, its producer and its consumer.
VARIABLES
  cap,        \* AudioRingBuffer.capacity
  slots,      \* ring storage, index 0..cap-1
  head,       \* consumer cursor, counted modulo 2*cap
  tail,       \* producer cursor, counted modulo 2*cap
  wpc,        \* producer position inside write: "idle" | "copy" | "advance"
  wbuf,       \* the slice passed to the write in progress
  wn,         \* count the write in progress decided to store
  wret,       \* value returned by the last completed write
  rpc,        \* consumer position inside read: "idle" | "copy" | "advance"
  rlen,       \* length of the buffer passed to the read in progress
  rn,         \* count the read in progress decided to take
  rbuf,       \* samples copied out by the read in progress
  rret,       \* value returned by the last completed read
  offered,    \* history: samples offered so far (also numbers the samples)
  accepted,   \* history: first wret samples of every completed write
  readLog,    \* history: samples returned by every completed read
  wfree,      \* history: free space when the last write was called
  ravail,     \* history: samples available when the last read was called
  wdone,      \* history: some write has completed
  rdone,      \* history: some read has completed
  ovfFresh,   \* history: count reported by an overflowing write on an empty
              \*   channel that no later call has followed yet, else -1
  rchk        \* history: that count, for a whole-content read in progress

chanVars == <<cap, slots, head, tail, wpc, wbuf, wn, wret, rpc, rlen, rn, rbuf,
              rret, offered, accepted, readLog, wfree, ravail, wdone, rdone,
              ovfFresh, rchk>>

\* FirFilter and FastFirFilter built from the same coefficients.
VARIABLES
  fh,           \* coefficients shared by the two filters
  firState,     \* FirFilter.state_buffer, index 0..length-1
  firCursor,    \* FirFilter.cursor
  fastBlock,    \* FastFirFilter.block_size
  fastFft,      \* FastFirFilter.fft_size
  fastOverlap,  \* FastFirFilter.overlap, index 0..filter_length-2
  firIn,        \* the last block fed to both filters
  firOut,       \* FirFilter::process_block output for that block
  fastOut,      \* FastFirFilter::process_block output for that block
  firBlocks     \* history: number of blocks fed so far

firVars == <<fh, firState, firCursor, fastBlock, fastFft, fastOverlap, firIn,
             firOut, fastOut, firBlocks>>

\* AudioProcessor, its processing thread, control thread and callbacks.
VARIABLES
  alive,           \* the process has not aborted
  running,         \* AtomicBool running
  bypass,          \* AtomicBool bypass
  monitoring,      \* AtomicBool monitoring
  gate_enabled,    \* AtomicBool gate_enabled
  filter_chain,    \* [gate: slot 0 holds a NoiseGate, user: slot 1]
  fft_size,        \* analyzer.config.fft_size
  results,         \* the snapshot slot
  audio_input,     \* audio_input is Some
  resampling,      \* the capture stream was built with the resampling callback
  audio_output,    \* audio_output is Some
  output_producer, \* output_producer holds Some(producer)
  process_thread,  \* process_thread is Some(handle)
  lock,            \* holder of every mutex: "free" or a thread name
  poisoned,        \* mutexes whose holder panicked
  inAvail,         \* occupied length of the input channel
  outAvail,        \* occupied length of the output channel
  ppc,             \* processing thread position
  psec,            \* mutex section the processing thread is at
  pn,              \* n: length of the block in flight
  pspec,           \* spectrum_len of the block in flight
  pseq,            \* history: number of blocks read so far
  cpc,             \* control thread position
  carg,            \* argument of the control call in progress
  calls,           \* history: control calls made
  cbpc,            \* capture callback position
  cbheld,          \* mutexes the capture callback has acquired, in order
  captures,        \* history: capture callbacks delivered
  pbpc,            \* playback callback position
  pblen,           \* length of the slice the playback callback fills
  pbheld,          \* mutexes the playback callback has acquired, in order
  lastRet,         \* history: value of the last get_results
  prevSome,        \* history: the get_results before it returned a snapshot
  lastRetFresh,    \* history: a block was published between those two calls
  pubSincePoll,    \* history: a block was published since the last get_results
  lastPub,         \* history: seq of the most recently published snapshot
  lastPubAtPoll,   \* history: lastPub when get_results last took a snapshot
  delivered,       \* history: seqs returned by get_results, in order
  overwritten      \* history: seqs overwritten in the slot before being polled

procVars == <<alive, running, bypass, monitoring, gate_enabled, filter_chain,
              fft_size, results, audio_input, resampling, audio_output,
              output_producer, process_thread, lock, poisoned, inAvail,
              outAvail, ppc, psec, pn, pspec, pseq, cpc, carg, calls, cbpc,
              cbheld, captures, pbpc, pblen, pbheld, lastRet, prevSome,
              lastRetFresh, pubSincePoll, lastPub, lastPubAtPoll, delivered,
              overwritten>>

\* NoiseGate: one gate object and the record of the last call made on it.
VARIABLES
  ngate,      \* the NoiseGate: parameters, envelope, envelope_squared, is_open
  gop,        \* history: the last call made on the gate
  gbefore,    \* history: the gate as it was before that call
  gio         \* history: the last sample processed and the value returned for it

gateVars == <<ngate, gop, gbefore, gio>>

\* Filter chain: the two slots behind the filter_chain mutex, the calls that
\* write them and the per-block pass of the processing loop, one at a time.
VARIABLES
  chain,      \* <<slot 0, slot 1>> of filter_chain
  called,     \* history: the last call, its arguments, its result, the chain before it
  ncalls      \* history: number of calls made

dsgVars == <<chain, called, ncalls>>

\* Lifecycle: the processor's flags and collaborators, and every thread spawned.
VARIABLES
  proc,       \* running, process_thread, audio_input, audio_output, monitoring, output_producer
  threads,    \* position of each processing thread spawned
  avail,      \* the ring buffer of each thread holds samples
  spawned,    \* history: number of threads spawned
  lpc,        \* control thread position
  lcalls,     \* history: number of control calls made
  last,       \* history: the last control call and its result
  quiet,      \* history: stop() has returned and start() was not called since
  late        \* history: what threads published or pushed while quiet

lifeVars == <<proc, threads, avail, spawned, lpc, lcalls, last, quiet, late>>

\* The filter objects on their own: one FirFilter with all its calls, one
\* FastFirFilter fed blocks of any length.
VARIABLES
  tdf,        \* the FirFilter: coefficients, state_buffer, cursor, length
  fastf,      \* the FastFirFilter: coefficients, block_size, fft_size, overlap
  fed,        \* history: the latest samples fed to the FirFilter since its delay line was last all zero
  twin,       \* history: a FirFilter built by new() at the last reset, fed the same samples since
  fcall,      \* history: the last call, its input, its output, the filter before it
  fcalls      \* history: number of calls made

tdfVars == <<tdf, fastf, fed, twin, fcall, fcalls>>

\* The processing loop against the control flags: one processing thread,
\* one control thread, block by block.
VARIABLES
  shared,     \* the AudioProcessor fields the loop reads: flags, producer, fft_size
  worker,     \* the processing thread: its position and the locals of the block in hand
  pending,    \* captured blocks waiting in the input channel
  blocks,     \* history: one record per block read, in the order read
  caller,     \* the control thread: the call under way and the calls made
  hist        \* history: what the control calls that have returned left behind

loopVars == <<shared, worker, pending, blocks, caller, hist>>

\* The FIR designers on their own, one design at a time.
VARIABLES
  dreq,       \* the last design request: designer, window, transition width, cutoffs
  dcoef       \* the coefficient vector it returned

coefVars == <<dreq, dcoef>>

\* The samples of the blocks through the loop and the snapshot slot: one
\* processing thread, the capture side, set_bypass and get_results.
VARIABLES
  feed,           \* the input channel: samples written, samples read, captures made
  snapper,        \* the processing thread: its position and the locals of the block in hand
  result_buffer,  \* the thread's result_buffer, each field with the block it was written for
  results_slot,   \* the Option<ProcessingResults> under the results mutex
  results_mutex,  \* the holder of the results mutex
  poller,         \* the thread calling get_results: position, polls made, last snapshot returned
  snap_flags,     \* bypass, and whether analyzer.lock() is Ok for this thread
  streamLog       \* history: the reads, the input waveforms and the blocks given to the chain

snapVars == <<feed, snapper, result_buffer, results_slot, results_mutex, poller, snap_flags, streamLog>>

vars == <<chanVars, firVars, procVars, gateVars, dsgVars, lifeVars, tdfVars, loopVars, coefVars, snapVars>>

\* What the actions of each part leave alone: the variables of the other parts.
notChan == <<firVars, procVars, gateVars, dsgVars, lifeVars, tdfVars, loopVars, coefVars, snapVars>>

notFir == <<chanVars, procVars, gateVars, dsgVars, lifeVars, tdfVars, loopVars, coefVars, snapVars>>

notProc == <<chanVars, firVars, gateVars, dsgVars, lifeVars, tdfVars, loopVars, coefVars, snapVars>>

notGate == <<chanVars, firVars, procVars, dsgVars, lifeVars, tdfVars, loopVars, coefVars, snapVars>>

notDsg == <<chanVars, firVars, procVars, gateVars, lifeVars, tdfVars, loopVars, coefVars, snapVars>>

notLife == <<chanVars, firVars, procVars, gateVars, dsgVars, tdfVars, loopVars, coefVars, snapVars>>

notTdf == <<chanVars, firVars, procVars, gateVars, dsgVars, lifeVars, loopVars, coefVars, snapVars>>

notLoop == <<chanVars, firVars, procVars, gateVars, dsgVars, lifeVars, tdfVars, coefVars, snapVars>>

notCoef == <<chanVars, firVars, procVars, gateVars, dsgVars, lifeVars, tdfVars, loopVars, snapVars>>

notSnap == <<chanVars, firVars, procVars, gateVars, dsgVars, lifeVars, tdfVars, loopVars, coefVars>>

(***************************************************************************)
(* Part 1.  SampleChannel (audio/buffer.rs over ringbuf::HeapRb)           *)
(***************************************************************************)

\* Largest ring capacity explored.
MaxCap == 3

\* Longest slice handed to write / longest buffer handed to read.
MaxLen == 4

\* Total number of samples the producer offers in a run.
MaxOffered == 6
\* ringbuf: occupied length from the two cursors (modulus 2*capacity).
OccupiedLen(c, h, t) == (2 * c + t - h) % (2 * c)

\* ringbuf: vacant length from the two cursors.
VacantLen(c, h, t) == (c + h - t) % (2 * c)

\* ringbuf: the two vacant ranges <<left, right>> given as lengths; left
\* starts at tail mod cap, right starts at slot 0.
VacantSlices(c, h, t) ==
  IF h \div c = t \div c
  THEN <<c - (t % c), h % c>>
  ELSE <<(h % c) - (t % c), 0>>

\* ringbuf: the two occupied ranges <<left, right>> given as lengths; left
\* starts at head mod cap, right starts at slot 0.
OccupiedSlices(c, h, t) ==
  IF h \div c = t \div c
  THEN <<(t % c) - (h % c), 0>>
  ELSE <<c - (h % c), t % c>>

\* A write that stores the whole slice whatever the free space is.
PushCountNoLimit(len, left, right) == len

\* push_slice: how many of len elements fit into the vacant ranges.
PushCount(len, left, right) ==
  IF len < left THEN len
  ELSE left + (IF len - left < right THEN len - left ELSE right)

\* A read that takes everything queued whatever the buffer length is.
PopCountAll(len, left, right) == left + right

\* pop_slice: how many elements are moved into a buffer of length len.
PopCount(len, left, right) ==
  IF len < left THEN len
  ELSE left + (IF len - left < right THEN len - left ELSE right)

\* A write that keeps the newest n samples of the slice.
PushItemsNewest(buf, n) == SubSeq(buf, Len(buf) - n + 1, Len(buf))

\* push_slice: the elements stored are the first n of the slice.
PushItems(buf, n) == SubSeq(buf, 1, n)

\* AudioRingBuffer::new + split: empty ring of the given capacity.
InitChan ==
  /\ cap \in 1..MaxCap
  /\ slots = [i \in 0..(cap - 1) |-> 0]
  /\ head = 0
  /\ tail = 0
  /\ wpc = "idle" /\ wbuf = <<>> /\ wn = 0 /\ wret = 0
  /\ rpc = "idle" /\ rlen = 0 /\ rn = 0 /\ rbuf = <<>> /\ rret = 0
  /\ offered = 0 /\ accepted = <<>> /\ readLog = <<>>
  /\ wfree = 0 /\ ravail = 0 /\ wdone = FALSE /\ rdone = FALSE
  /\ ovfFresh = -1 /\ rchk = -1

\* AudioProducer::write, entry: push_slice loads both cursors and sizes the copy.
WriteCall ==
  /\ wpc = "idle"
  /\ \E len \in 1..MaxLen :
       /\ offered + len <= MaxOffered
       /\ wbuf' = [k \in 1..len |-> offered + k]
       /\ offered' = offered + len
       /\ LET vs == VacantSlices(cap, head, tail)
          IN  wn' = PushCount(len, vs[1], vs[2])
  /\ wfree' = cap - (Len(accepted) - Len(readLog))
  /\ ovfFresh' = -1
  /\ wpc' = "copy"
  /\ UNCHANGED <<cap, slots, head, tail, wret, rpc, rlen, rn, rbuf, rret,
                 accepted, readLog, ravail, wdone, rdone, rchk>>
  /\ UNCHANGED notChan

\* AudioProducer::write, copy: the elements go to the vacant slots after tail.
WriteCopy ==
  /\ wpc = "copy"
  /\ LET items == PushItems(wbuf, wn)
     IN  slots' = [i \in 0..(cap - 1) |->
                     IF \E k \in 1..Len(items) : ((tail % cap) + k - 1) % cap = i
                     THEN items[CHOOSE k \in 1..Len(items) :
                                  ((tail % cap) + k - 1) % cap = i]
                     ELSE slots[i]]
  /\ wpc' = "advance"
  /\ UNCHANGED <<cap, head, tail, wbuf, wn, wret, rpc, rlen, rn, rbuf, rret,
                 offered, accepted, readLog, wfree, ravail, wdone, rdone,
                 ovfFresh, rchk>>
  /\ UNCHANGED notChan

\* AudioProducer::write, exit: the tail cursor is published, the count returned.
WriteAdvance ==
  /\ wpc = "advance"
  /\ tail' = (tail + wn) % (2 * cap)
  /\ wret' = wn
  /\ accepted' = accepted \o SubSeq(wbuf, 1, wn)
  /\ wdone' = TRUE
  /\ ovfFresh' = IF wfree = cap /\ Len(wbuf) > wn THEN wn ELSE -1
  /\ wpc' = "idle"
  /\ UNCHANGED <<cap, slots, head, wbuf, wn, rpc, rlen, rn, rbuf, rret,
                 offered, readLog, wfree, ravail, rdone, rchk>>
  /\ UNCHANGED notChan

\* AudioConsumer::read, entry: pop_slice loads both cursors and sizes the copy.
ReadCall ==
  /\ rpc = "idle"
  /\ \E len \in 1..MaxLen :
       /\ rlen' = len
       /\ LET os == OccupiedSlices(cap, head, tail)
          IN  rn' = PopCount(len, os[1], os[2])
       /\ rchk' = IF ovfFresh >= 0 /\ len >= cap THEN ovfFresh ELSE -1
  /\ ravail' = Len(accepted) - Len(readLog)
  /\ ovfFresh' = -1
  /\ rbuf' = <<>>
  /\ rpc' = "copy"
  /\ UNCHANGED <<cap, slots, head, tail, wpc, wbuf, wn, wret, rret, offered,
                 accepted, readLog, wfree, wdone, rdone>>
  /\ UNCHANGED notChan

\* AudioConsumer::read, copy: the elements are moved out of the occupied slots.
ReadCopy ==
  /\ rpc = "copy"
  /\ rbuf' = [k \in 1..rn |-> slots[((head % cap) + k - 1) % cap]]
  /\ rpc' = "advance"
  /\ UNCHANGED <<cap, slots, head, tail, wpc, wbuf, wn, wret, rlen, rn, rret,
                 offered, accepted, readLog, wfree, ravail, wdone, rdone,
                 ovfFresh, rchk>>
  /\ UNCHANGED notChan

\* AudioConsumer::read, exit: the head cursor is published, the count returned.
ReadAdvance ==
  /\ rpc = "advance"
  /\ head' = (head + rn) % (2 * cap)
  /\ rret' = rn
  /\ readLog' = readLog \o rbuf
  /\ rdone' = TRUE
  /\ rpc' = "idle"
  /\ UNCHANGED <<cap, slots, tail, wpc, wbuf, wn, wret, rlen, rn, rbuf,
                 offered, accepted, wfree, ravail, wdone, ovfFresh, rchk>>
  /\ UNCHANGED notChan

NextChan == WriteCall \/ WriteCopy \/ WriteAdvance \/ ReadCall \/ ReadCopy \/ ReadAdvance

\* Samples accepted by write and not yet returned by read.
InFlight == Len(accepted) - Len(readLog)

\* C3: in every state of every interleaving of one producer and one consumer,
\* for every capacity, the samples read never outnumber the samples accepted
\* by write, and the samples in flight never outnumber the capacity.
C3_ChanConservation ==
  /\ Len(readLog) <= Len(accepted)
  /\ InFlight <= cap

\* A full channel, after samples were read, while a further write is under way.
C3_Witness ==
  /\ InFlight = cap
  /\ Len(readLog) > 0
  /\ wpc = "advance"
  /\ rpc = "copy"

C5_ChanFifo ==
  /\ Len(readLog) <= Len(accepted)
  /\ \A i \in 1..Len(readLog) : readLog[i] = accepted[i]
  /\ \A k \in 1..OccupiedLen(cap, head, tail) :
        /\ Len(readLog) + k <= Len(accepted)
        /\ slots[((head % cap) + k - 1) % cap] = accepted[Len(readLog) + k]

\* Samples were dropped by an overflow, the ring has wrapped, and reads returned data.
C5_Witness ==
  /\ Len(readLog) >= 3
  /\ Len(accepted) < offered
  /\ head >= cap
  /\ wpc = "idle" /\ rpc = "idle"

(***************************************************************************)
(* Part 2.  TimeDomainFilter (filters/fir.rs) and FrequencyDomainFilter    *)
(* (filters/fast_fir.rs).  Samples and taps are integers, so the FFT       *)
(* product is the exact circular convolution it computes.                  *)
(***************************************************************************)

\* Longest coefficient vector explored.
MaxTaps == 3

\* Largest block_size given to FastFirFilter::new.
MaxBlockSize == 2

\* Number of blocks fed to the two filters in a run.
MaxFirBlocks == 3

\* Tap values explored.
CoefVals == {0, 1}

\* Sample values explored.
SampleVals == {0, 1}
RECURSIVE PowTwoFrom(_, _)
PowTwoFrom(p, n) == IF p >= n THEN p ELSE PowTwoFrom(2 * p, n)

\* usize::next_power_of_two
NextPowerOfTwo(n) == PowTwoFrom(1, n)

RECURSIVE SumTo(_, _)
\* Sum of f[0] .. f[k]; 0 when k < 0.
SumTo(f, k) == IF k < 0 THEN 0 ELSE f[k] + SumTo(f, k - 1)

\* FirFilter::process_sample: the state after writing input at the cursor.
FirWrite(st, cur, x) == [st EXCEPT ![cur] = x]

\* A convolution that walks the delay line forwards from the cursor.
FirOutputForward(h, st, cur) ==
  LET m == Len(h)
  IN  SumTo([k \in 0..(m - 1) |-> h[k + 1] * st[(cur + k) % m]], m - 1)

\* FirFilter::process_sample: y = sum of h[k] * state[(cursor + length - k) % length].
FirOutput(h, st, cur) ==
  LET m == Len(h)
  IN  SumTo([k \in 0..(m - 1) |-> h[k + 1] * st[(cur + m - k) % m]], m - 1)

RECURSIVE FirRun(_, _, _, _, _)
\* FirFilter::process_block: process_sample over the block, left to right.
\* Yields the outputs produced so far, the delay line and the cursor.
FirRun(h, st, cur, input, out) ==
  IF input = <<>> THEN [out |-> out, st |-> st, cur |-> cur]
  ELSE LET st1 == FirWrite(st, cur, Head(input))
       IN  FirRun(h, st1, (cur + 1) % Len(h), Tail(input),
                  Append(out, FirOutput(h, st1, cur)))

\* A sequence zero-padded to n entries, indexed 0..n-1.
ZeroPad(sq, n) == [i \in 0..(n - 1) |-> IF i < Len(sq) THEN sq[i + 1] ELSE 0]

\* Forward FFT of both operands, pointwise product, inverse FFT scaled by
\* 1/fft_size: the circular convolution of size n, indexed 0..n-1.
CircConv(x, h, n) ==
  LET xp == ZeroPad(x, n)
      hp == ZeroPad(h, n)
  IN  [i \in 0..(n - 1) |->
         SumTo([j \in 0..(n - 1) |-> xp[j] * hp[(i - j + n) % n]], n - 1)]

\* FastFirFilter::process_block, steps 1-6: the output block.
FastOutput(h, blockSize, fftSize, overlap, input) ==
  LET n == Min(Len(input), blockSize)
      y == CircConv(SubSeq(input, 1, n), h, fftSize)
  IN  [i \in 1..n |-> y[i - 1] + (IF i - 1 < Len(overlap) THEN overlap[i] ELSE 0)]

\* FastFirFilter::process_block, step 7: the tail saved for the next block.
FastTail(h, blockSize, fftSize, overlap, input) ==
  LET n == Min(Len(input), blockSize)
      y == CircConv(SubSeq(input, 1, n), h, fftSize)
  IN  [i \in 1..(Len(h) - 1) |-> IF n + i - 1 < fftSize THEN y[n + i - 1] ELSE 0]

\* FirFilter::new(h) and FastFirFilter::new(h, block_size) on the same coefficients.
InitFir ==
  /\ \E m \in 1..MaxTaps : fh \in [1..m -> CoefVals]
  /\ firState = [i \in 0..(Len(fh) - 1) |-> 0]
  /\ firCursor = 0
  /\ fastBlock \in 1..MaxBlockSize
  /\ fastFft = NextPowerOfTwo(fastBlock + Len(fh) - 1)
  /\ fastOverlap = [i \in 1..(Len(fh) - 1) |-> 0]
  /\ firIn = <<>> /\ firOut = <<>> /\ fastOut = <<>>
  /\ firBlocks = 0

\* One input block, at most block_size long, through process_block of both filters.
FilterBlock ==
  /\ firBlocks < MaxFirBlocks
  /\ \E len \in 1..fastBlock : \E input \in [1..len -> SampleVals] :
       LET r == FirRun(fh, firState, firCursor, input, <<>>)
       IN  /\ firIn' = input
           /\ firOut' = r.out
           /\ firState' = r.st
           /\ firCursor' = r.cur
           /\ fastOut' = FastOutput(fh, fastBlock, fastFft, fastOverlap, input)
           /\ fastOverlap' = FastTail(fh, fastBlock, fastFft, fastOverlap, input)
  /\ firBlocks' = firBlocks + 1
  /\ UNCHANGED <<fh, fastBlock, fastFft>>
  /\ UNCHANGED notFir

NextFir == FilterBlock

\* C6: a TimeDomainFilter and a FrequencyDomainFilter built from the same
\* coefficients and fed the same blocks (none longer than the block size, some
\* shorter than M-1) produce the same output for every block.
C6_FiltersAgree == firOut = fastOut

(***************************************************************************)
(* Part 3.  AudioProcessor (audio/processor.rs) with the capture callback  *)
(* (audio/input.rs) and the playback callback (audio/output.rs).           *)
(* One processing thread, one control thread issuing the control calls     *)
(* and get_results, and the two device callbacks run interleaved.          *)
(* The two sample channels are represented by their occupied length.       *)
(***************************************************************************)

\* Number of capture callbacks delivered in a run.
MaxCaptures == 2

\* Number of control calls (get_results not counted) in a run.
MaxCalls == 2

MAX_WAVEFORM_SIZE == 4096

MAX_SPECTRUM_SIZE == 4097

\* vec![0.0; 2048]: temp_buffer of the processing thread.
TempBufferLen == 2048

\* vec![0.0; 8192]: padded_signal of the processing thread.
PaddedSignalLen == 8192

\* AudioRingBuffer::new(96000)
RingCapacity == 96000

\* filter_length > 128 selects FastFirFilter.
FastFirThreshold == 128

\* AnalyzerConfig.fft_size set by AudioProcessor::new.
DefaultFftSize == 4096

\* Lengths of the sample slices the device hands to the capture callback.
CaptureLens == {64, 2048}

\* Lengths of the slices the device asks the playback callback to fill.
PlaybackLens == {2048}

\* Coefficient counts produced by the designs explored: 27 (Rectangular,
\* transition width 0.5) and 161 (Hamming, transition width 0.05*pi).
DesignLens == {27, 161}

\* fft_size values passed to update_fft_config.
FftSizes == {8192, 16384}

\* Mutexes shared between threads of the processor.
SharedLocks == {"chain", "analyzer", "results", "outprod"}

\* Mutexes created inside AudioInput::from_device / AudioOutput::from_device.
CallbackLockNames == {"in_buffer", "in_resampler", "in_producer", "out_consumer"}

LockNames == SharedLocks \cup CallbackLockNames

\* Option<ProcessingResults>::None
NoSnapshot == [seq |-> 0, wlen |-> 0, slen |-> 0]

\* vec![None, None]
NoFilter == [kind |-> "none", len |-> 0]
\* AudioProcessor::new
InitProc ==
  /\ alive = TRUE
  /\ running = FALSE /\ bypass = FALSE /\ monitoring = FALSE
  /\ gate_enabled = FALSE
  /\ filter_chain = [gate |-> FALSE, user |-> NoFilter]
  /\ fft_size = DefaultFftSize
  /\ results = NoSnapshot
  /\ audio_input = FALSE /\ resampling = FALSE /\ audio_output = FALSE
  /\ output_producer = FALSE /\ process_thread = FALSE
  /\ lock = [l \in LockNames |-> "free"]
  /\ poisoned = {}
  /\ inAvail = 0 /\ outAvail = 0
  /\ ppc = "none" /\ psec = "-" /\ pn = 0 /\ pspec = 0 /\ pseq = 0
  /\ cpc = "idle" /\ carg = 0 /\ calls = 0
  /\ cbpc = "idle" /\ cbheld = <<>> /\ captures = 0
  /\ pbpc = "idle" /\ pblen = 0 /\ pbheld = <<>>
  /\ lastRet = NoSnapshot /\ prevSome = FALSE /\ lastRetFresh = FALSE
  /\ pubSincePoll = FALSE /\ lastPub = 0 /\ lastPubAtPoll = 0
  /\ delivered = <<>> /\ overwritten = {}

\* Variables of the processing thread and of the state it alone writes.
procThreadVars == <<ppc, psec, pn, pspec, pseq>>

ctlVars == <<cpc, carg, calls>>

captureVars == <<cbpc, cbheld, captures>>

playbackVars == <<pbpc, pblen, pbheld>>

flagVars == <<running, bypass, monitoring, gate_enabled>>

deviceVars == <<audio_input, resampling, audio_output, process_thread>>

pollVars == <<lastRet, prevSome, lastRetFresh, lastPubAtPoll, delivered>>

pubVars == <<pubSincePoll, lastPub, overwritten>>

\* A mutex that never makes a caller of lock() wait.
MutexNeverHeld(l) == TRUE

\* Mutex::lock returns only while no other thread holds the guard.
MutexFree(l) == lock[l] = "free"

\* MutexGuard drop.
Release(l) == [lock EXCEPT ![l] = "free"]

\* Mutex::lock succeeding for thread t.
Acquire(l, t) == [lock EXCEPT ![l] = t]


(* ----------------------- the processing thread ------------------------- *)

\* The mutex section that follows section s in the loop body, "-" after the last.
SectionAfter(s) ==
  CASE s = "chain" -> "analyzer"
    [] s = "analyzer" -> "results"
    [] OTHER -> "-"

\* Loop position after section s was left or skipped.
StageAfter(s) ==
  CASE s = "chain" -> "lock"
    [] s = "analyzer" -> "lock"
    [] s = "results" -> "monitor"
    [] OTHER -> "check"

\* Results of the outcomes a build gives to the self-call of
\* <FastFirFilter as FilterTrait>::process_block_inplace: the stack overflows
\* and the process aborts, or the call is compiled to a loop and never returns.
RecursionOutcomes == {"aborted", "recursing"}

\* while running.load(SeqCst)
ProcCheck ==
  /\ alive /\ ppc = "check"
  /\ ppc' = IF running THEN "read" ELSE "exited"
  /\ UNCHANGED <<alive, flagVars, filter_chain, fft_size, results, deviceVars,
                 output_producer, lock, poisoned, inAvail, outAvail, psec, pn,
                 pspec, pseq, ctlVars, captureVars, playbackVars, pollVars,
                 pubVars>>
  /\ UNCHANGED notProc

\* let n = consumer.read(&mut temp_buffer); n.min(MAX_WAVEFORM_SIZE); the two copies.
ProcRead ==
  /\ alive /\ ppc = "read"
  /\ LET n == Min(TempBufferLen, inAvail)
     IN  /\ inAvail' = inAvail - n
         /\ IF n > 0
            THEN /\ pn' = Min(n, MAX_WAVEFORM_SIZE)
                 /\ pseq' = pseq + 1
                 /\ ppc' = "bypass"
            ELSE /\ ppc' = "sleep"
                 /\ UNCHANGED <<pn, pseq>>
  /\ UNCHANGED <<alive, flagVars, filter_chain, fft_size, results, deviceVars,
                 output_producer, lock, poisoned, outAvail, psec, pspec,
                 ctlVars, captureVars, playbackVars, pollVars, pubVars>>
  /\ UNCHANGED notProc

\* std::thread::sleep(100 us) when no sample was read.
ProcSleep ==
  /\ alive /\ ppc = "sleep"
  /\ ppc' = "check"
  /\ UNCHANGED <<alive, flagVars, filter_chain, fft_size, results, deviceVars,
                 output_producer, lock, poisoned, inAvail, outAvail, psec, pn,
                 pspec, pseq, ctlVars, captureVars, playbackVars, pollVars,
                 pubVars>>
  /\ UNCHANGED notProc

\* if bypass.load(SeqCst) { n } else { filter chain }
ProcBypass ==
  /\ alive /\ ppc = "bypass"
  /\ ppc' = "lock"
  /\ psec' = IF bypass THEN "analyzer" ELSE "chain"
  /\ UNCHANGED <<alive, flagVars, filter_chain, fft_size, results, deviceVars,
                 output_producer, lock, poisoned, inAvail, outAvail, pn, pspec,
                 pseq, ctlVars, captureVars, playbackVars, pollVars, pubVars>>
  /\ UNCHANGED notProc

\* if let Ok(guard) = mutex.lock(): Err only when the mutex is poisoned (the
\* section is then skipped); otherwise the guard is taken, at once when the
\* mutex is free and after parking in lock() when it is held.
ProcLock ==
  /\ alive /\ ppc = "lock"
  /\ IF psec \in poisoned
     THEN /\ ppc' = StageAfter(psec)
          /\ psec' = SectionAfter(psec)
          /\ pspec' = IF psec = "analyzer" THEN 0 ELSE pspec
          /\ lock' = lock
     ELSE IF MutexFree(psec)
     THEN /\ lock' = Acquire(psec, "proc")
          /\ ppc' = "run"
          /\ UNCHANGED <<psec, pspec>>
     ELSE /\ ppc' = "wait"
          /\ UNCHANGED <<lock, psec, pspec>>
  /\ UNCHANGED <<alive, flagVars, filter_chain, fft_size, results, deviceVars,
                 output_producer, poisoned, inAvail, outAvail, pn, pseq,
                 ctlVars, captureVars, playbackVars, pollVars, pubVars>>
  /\ UNCHANGED notProc

\* Mutex::lock returning to the parked processing thread once the holder released.
ProcWake ==
  /\ alive /\ ppc = "wait"
  /\ MutexFree(psec)
  /\ lock' = Acquire(psec, "proc")
  /\ ppc' = "run"
  /\ UNCHANGED <<alive, flagVars, filter_chain, fft_size, results, deviceVars,
                 output_producer, poisoned, inAvail, outAvail, psec, pn, pspec,
                 pseq, ctlVars, captureVars, playbackVars, pollVars, pubVars>>
  /\ UNCHANGED notProc

\* for filter_opt in chain_guard.iter_mut() { filter.process_block_inplace(..) }
\* NoiseGate and FirFilter have an inherent process_block_inplace; FastFirFilter
\* has none, so its trait method calls itself.
ProcRunChain ==
  /\ alive /\ ppc = "run" /\ psec = "chain"
  /\ IF filter_chain.user.kind = "fastfir"
     THEN /\ \E o \in RecursionOutcomes :
               /\ ppc' = o
               /\ alive' = (o # "aborted")
          /\ UNCHANGED <<lock, psec>>
     ELSE /\ lock' = Release("chain")
          /\ ppc' = "lock"
          /\ psec' = "analyzer"
          /\ alive' = alive
  /\ UNCHANGED <<flagVars, filter_chain, fft_size, results, deviceVars,
                 output_producer, poisoned, inAvail, outAvail, pn, pspec, pseq,
                 ctlVars, captureVars, playbackVars, pollVars, pubVars>>
  /\ UNCHANGED notProc

\* spec_len of a block analysed with the given fft_size.
SpectrumLen(size) == Min(size \div 2 + 1, MAX_SPECTRUM_SIZE)

\* padded_signal[..fft_size] on a vector of 8192 entries, analyze_db,
\* frequency_bins_hz and the two spectrum copies.
ProcRunAnalyzer ==
  /\ alive /\ ppc = "run" /\ psec = "analyzer"
  /\ lock' = Release("analyzer")
  /\ IF fft_size > PaddedSignalLen
     THEN /\ ppc' = "panicked"
          /\ poisoned' = poisoned \cup {"analyzer"}
          /\ UNCHANGED <<psec, pspec>>
     ELSE /\ pspec' = SpectrumLen(fft_size)
          /\ ppc' = "lock"
          /\ psec' = "results"
          /\ poisoned' = poisoned
  /\ UNCHANGED <<alive, flagVars, filter_chain, fft_size, results, deviceVars,
                 output_producer, inAvail, outAvail, pn, pseq, ctlVars,
                 captureVars, playbackVars, pollVars, pubVars>>
  /\ UNCHANGED notProc

\* A publish that leaves an unconsumed snapshot in place.
PublishKeepOld(old, new) == IF old = NoSnapshot THEN new ELSE old

\* *results_guard = Some(result_buffer.clone())
PublishSlot(old, new) == new

\* The waveform copies, the three result fields and the publish.
ProcPublish ==
  /\ alive /\ ppc = "run" /\ psec = "results"
  /\ results' = PublishSlot(results, [seq |-> pseq, wlen |-> pn, slen |-> pspec])
  /\ lock' = Release("results")
  /\ pubSincePoll' = TRUE
  /\ lastPub' = pseq
  /\ overwritten' = IF results # NoSnapshot
                    THEN overwritten \cup {results.seq} ELSE overwritten
  /\ ppc' = "monitor"
  /\ psec' = "-"
  /\ UNCHANGED <<alive, flagVars, filter_chain, fft_size, deviceVars,
                 output_producer, poisoned, inAvail, outAvail, pn, pspec, pseq,
                 ctlVars, captureVars, playbackVars, pollVars>>
  /\ UNCHANGED notProc

\* if monitoring.load(SeqCst)
ProcMonitor ==
  /\ alive /\ ppc = "monitor"
  /\ IF monitoring
     THEN ppc' = "lock" /\ psec' = "outprod" /\ UNCHANGED <<pn, pspec>>
     ELSE ppc' = "check" /\ psec' = "-" /\ pn' = 0 /\ pspec' = 0
  /\ UNCHANGED <<alive, flagVars, filter_chain, fft_size, results, deviceVars,
                 output_producer, lock, poisoned, inAvail, outAvail, pseq,
                 ctlVars, captureVars, playbackVars, pollVars, pubVars>>
  /\ UNCHANGED notProc

\* if let Some(producer) = producer_guard.as_mut() { producer.write(..) }
ProcRunOutput ==
  /\ alive /\ ppc = "run" /\ psec = "outprod"
  /\ outAvail' = IF output_producer
                 THEN outAvail + Min(pn, RingCapacity - outAvail)
                 ELSE outAvail
  /\ lock' = Release("outprod")
  /\ ppc' = "check"
  /\ psec' = "-"
  /\ pn' = 0 /\ pspec' = 0
  /\ UNCHANGED <<alive, flagVars, filter_chain, fft_size, results, deviceVars,
                 output_producer, poisoned, inAvail, pseq, ctlVars,
                 captureVars, playbackVars, pollVars, pubVars>>
  /\ UNCHANGED notProc

ProcNext ==
  \/ ProcCheck \/ ProcRead \/ ProcSleep \/ ProcBypass \/ ProcLock \/ ProcWake
  \/ ProcRunChain \/ ProcRunAnalyzer \/ ProcPublish \/ ProcMonitor
  \/ ProcRunOutput

(* ------------------- the control thread: control calls ----------------- *)

\* Everything a control call that only moves the control thread leaves alone.
ctlFrame == <<alive, filter_chain, fft_size, results, output_producer, poisoned,
              inAvail, outAvail, procThreadVars, captureVars, playbackVars,
              pollVars, pubVars>>

\* The mutex a control call locks at each of its lock points.
CtlLockOf(pc) ==
  CASE pc = "gate_lock" -> "chain"
    [] pc = "start_lock" -> "analyzer"
    [] pc = "enable_lock" -> "outprod"
    [] pc = "disable_lock" -> "outprod"

CtlLockStages == {"gate_lock", "start_lock", "enable_lock", "disable_lock"}

\* Position inside the guarded block entered from a lock point.
CtlRunStage(pc) ==
  CASE pc = "gate_lock" -> "gate_run"
    [] pc = "start_lock" -> "start_run"
    [] pc = "enable_lock" -> "enable_run"
    [] pc = "disable_lock" -> "disable_run"

\* Position after the guarded block, also reached when lock() returned Err.
CtlAfterStage(pc) ==
  CASE pc = "start_lock" -> "start_stream"
    [] pc = "enable_lock" -> "enable_open"
    [] OTHER -> "idle"

\* if let Ok(mut guard) = self.<mutex>.lock() in a control call: the block is
\* skipped when the mutex is poisoned; the call waits while the mutex is held.
CtlLock ==
  /\ alive /\ cpc \in CtlLockStages
  /\ IF CtlLockOf(cpc) \in poisoned
     THEN /\ cpc' = CtlAfterStage(cpc)
          /\ carg' = 0
          /\ lock' = lock
     ELSE /\ MutexFree(CtlLockOf(cpc))
          /\ lock' = Acquire(CtlLockOf(cpc), "ctl")
          /\ cpc' = CtlRunStage(cpc)
          /\ carg' = carg
  /\ UNCHANGED <<flagVars, deviceVars, calls, ctlFrame>>
  /\ UNCHANGED notProc

\* design_filter: FastFirFilter::new(coeffs, 2048) when filter_length > 128,
\* FirFilter::new(coeffs) otherwise.
NewFilter(len) ==
  [kind |-> IF len > FastFirThreshold THEN "fastfir" ELSE "fir", len |-> len]

\* design_filter, through self.filter_chain.lock(): the coefficients are
\* designed and the filter built, touching no shared state; the call then
\* takes the chain mutex (waiting while it is held, skipping the store when
\* it is poisoned).
DesignCall ==
  /\ alive /\ cpc = "idle" /\ calls < MaxCalls
  /\ \E len \in DesignLens :
       IF "chain" \in poisoned
       THEN UNCHANGED <<cpc, carg, lock>>
       ELSE /\ MutexFree("chain")
            /\ lock' = Acquire("chain", "ctl")
            /\ carg' = len
            /\ cpc' = "design_run"
  /\ calls' = calls + 1
  /\ UNCHANGED <<flagVars, deviceVars, ctlFrame>>
  /\ UNCHANGED notProc

\* design_filter: chain_guard[1] = Some(new_filter)
DesignInstall ==
  /\ alive /\ cpc = "design_run"
  /\ filter_chain' = [filter_chain EXCEPT !.user = NewFilter(carg)]
  /\ lock' = Release("chain")
  /\ cpc' = "idle"
  /\ carg' = 0
  /\ UNCHANGED <<alive, flagVars, deviceVars, fft_size, results,
                 output_producer, poisoned, inAvail, outAvail, procThreadVars,
                 calls, captureVars, playbackVars, pollVars, pubVars>>
  /\ UNCHANGED notProc

\* configure_noise_gate, up to the chain lock: the flag and the parameters are stored.
GateCall ==
  /\ alive /\ cpc = "idle" /\ calls < MaxCalls
  /\ \E enabled \in BOOLEAN :
       /\ gate_enabled' = enabled
       /\ carg' = IF enabled THEN 1 ELSE 0
  /\ cpc' = "gate_lock"
  /\ calls' = calls + 1
  /\ UNCHANGED <<running, bypass, monitoring, deviceVars, lock, ctlFrame>>
  /\ UNCHANGED notProc

\* configure_noise_gate: chain_guard[0] = Some(gate) or None
GateInstall ==
  /\ alive /\ cpc = "gate_run"
  /\ filter_chain' = [filter_chain EXCEPT !.gate = (carg = 1)]
  /\ lock' = Release("chain")
  /\ cpc' = "idle"
  /\ carg' = 0
  /\ UNCHANGED <<alive, flagVars, deviceVars, fft_size, results,
                 output_producer, poisoned, inAvail, outAvail, procThreadVars,
                 calls, captureVars, playbackVars, pollVars, pubVars>>
  /\ UNCHANGED notProc

\* set_bypass
SetBypass ==
  /\ alive /\ cpc = "idle" /\ calls < MaxCalls
  /\ \E b \in BOOLEAN : b # bypass /\ bypass' = b
  /\ calls' = calls + 1
  /\ UNCHANGED <<running, monitoring, gate_enabled, deviceVars, lock, cpc, carg,
                 ctlFrame>>
  /\ UNCHANGED notProc

\* update_fft_config, through self.analyzer.lock(): the call takes the
\* analyzer mutex (waiting while it is held); when the mutex is poisoned the
\* update is skipped.
FftCall ==
  /\ alive /\ cpc = "idle" /\ calls < MaxCalls
  /\ \E size \in FftSizes :
       IF "analyzer" \in poisoned
       THEN UNCHANGED <<cpc, carg, lock>>
       ELSE /\ MutexFree("analyzer")
            /\ lock' = Acquire("analyzer", "ctl")
            /\ carg' = size
            /\ cpc' = "fft_run"
  /\ calls' = calls + 1
  /\ UNCHANGED <<flagVars, deviceVars, ctlFrame>>
  /\ UNCHANGED notProc

\* update_fft_config: analyzer.update_config(..)
FftApply ==
  /\ alive /\ cpc = "fft_run"
  /\ fft_size' = carg
  /\ lock' = Release("analyzer")
  /\ cpc' = "idle"
  /\ carg' = 0
  /\ UNCHANGED <<alive, flagVars, deviceVars, filter_chain, results,
                 output_producer, poisoned, inAvail, outAvail, procThreadVars,
                 calls, captureVars, playbackVars, pollVars, pubVars>>
  /\ UNCHANGED notProc

\* enable_monitoring, up to the output-producer lock.
EnableCall ==
  /\ alive /\ cpc = "idle" /\ calls < MaxCalls
  /\ IF audio_output
     THEN monitoring' = TRUE /\ cpc' = "idle"
     ELSE monitoring' = monitoring /\ cpc' = "enable_lock"
  /\ calls' = calls + 1
  /\ UNCHANGED <<running, bypass, gate_enabled, deviceVars, lock, carg,
                 ctlFrame>>
  /\ UNCHANGED notProc

\* enable_monitoring: *producer_guard = Some(producer) of a new ring buffer.
EnableStore ==
  /\ alive /\ cpc = "enable_run"
  /\ output_producer' = TRUE
  /\ outAvail' = 0
  /\ lock' = Release("outprod")
  /\ cpc' = "enable_open"
  /\ UNCHANGED <<alive, flagVars, deviceVars, filter_chain, fft_size, results,
                 poisoned, inAvail, procThreadVars, carg, calls, captureVars,
                 playbackVars, pollVars, pubVars>>
  /\ UNCHANGED notProc

\* enable_monitoring: AudioOutput::from_default_device and output.start() may
\* fail; on success the output is kept and the flag set.
EnableOpen ==
  /\ alive /\ cpc = "enable_open"
  /\ \E ok \in BOOLEAN :
       /\ audio_output' = ok
       /\ monitoring' = (ok \/ monitoring)
  /\ cpc' = "idle"
  /\ UNCHANGED <<running, bypass, gate_enabled, audio_input, resampling,
                 process_thread, lock, carg, calls, ctlFrame>>
  /\ UNCHANGED notProc

\* disable_monitoring, up to the output-producer lock: the flag is cleared,
\* the output stream paused and dropped.
DisableCall ==
  /\ alive /\ cpc = "idle" /\ calls < MaxCalls
  /\ pbpc = "idle"
  /\ monitoring' = FALSE
  /\ audio_output' = FALSE
  /\ cpc' = "disable_lock"
  /\ calls' = calls + 1
  /\ UNCHANGED <<running, bypass, gate_enabled, audio_input, resampling,
                 process_thread, lock, carg, ctlFrame>>
  /\ UNCHANGED notProc

\* disable_monitoring: *producer_guard = None
DisableClear ==
  /\ alive /\ cpc = "disable_run"
  /\ output_producer' = FALSE
  /\ lock' = Release("outprod")
  /\ cpc' = "idle"
  /\ UNCHANGED <<alive, flagVars, deviceVars, filter_chain, fft_size, results,
                 poisoned, inAvail, outAvail, procThreadVars, carg, calls,
                 captureVars, playbackVars, pollVars, pubVars>>
  /\ UNCHANGED notProc

\* start, up to the analyzer lock: the ring buffer is created and
\* AudioInput::from_default_device builds the stream or fails.  The runs
\* explored call start on a processor that holds no thread handle.
StartCall ==
  /\ alive /\ cpc = "idle" /\ calls < MaxCalls
  /\ ~process_thread
  /\ \E ok \in BOOLEAN, rs \in BOOLEAN :
       IF ok
       THEN cpc' = "start_lock" /\ resampling' = rs
       ELSE cpc' = "idle" /\ resampling' = resampling
  /\ calls' = calls + 1
  /\ UNCHANGED <<flagVars, audio_input, audio_output, process_thread, lock,
                 carg, ctlFrame>>
  /\ UNCHANGED notProc

\* start: analyzer.update_config with the device sample rate, fft_size kept.
StartConfigure ==
  /\ alive /\ cpc = "start_run"
  /\ lock' = Release("analyzer")
  /\ cpc' = "start_stream"
  /\ UNCHANGED <<flagVars, deviceVars, carg, calls, ctlFrame>>
  /\ UNCHANGED notProc

\* start: input.start() may fail; otherwise the input is kept, running is set
\* and the processing thread is spawned on the new consumer.
StartSpawn ==
  /\ alive /\ cpc = "start_stream"
  /\ \E ok \in BOOLEAN :
       IF ok
       THEN /\ audio_input' = TRUE
            /\ running' = TRUE
            /\ process_thread' = TRUE
            /\ ppc' = "check" /\ psec' = "-"
            /\ inAvail' = 0
       ELSE UNCHANGED <<audio_input, running, process_thread, ppc, psec,
                        inAvail>>
  /\ cpc' = "idle"
  /\ UNCHANGED <<alive, bypass, monitoring, gate_enabled, resampling,
                 audio_output, filter_chain, fft_size, results,
                 output_producer, lock, poisoned, outAvail, pn, pspec, pseq,
                 carg, calls, captureVars, playbackVars, pollVars, pubVars>>
  /\ UNCHANGED notProc

\* stop: running.store(false)
StopCall ==
  /\ alive /\ cpc = "idle" /\ calls < MaxCalls
  /\ running' = FALSE
  /\ cpc' = "stop_join"
  /\ calls' = calls + 1
  /\ UNCHANGED <<bypass, monitoring, gate_enabled, deviceVars, lock, carg,
                 ctlFrame>>
  /\ UNCHANGED notProc

\* stop: handle.join() returns once the thread has ended, and the handle is
\* gone; the input is paused and dropped, its callback and resampler with it.
StopJoin ==
  /\ alive /\ cpc = "stop_join"
  /\ process_thread => ppc \in {"exited", "panicked"}
  /\ cbpc = "idle"
  /\ process_thread' = FALSE
  /\ ppc' = "none"
  /\ audio_input' = FALSE
  /\ resampling' = FALSE
  /\ cpc' = "idle"
  /\ UNCHANGED <<alive, flagVars, audio_output, filter_chain, fft_size,
                 results, output_producer, lock, poisoned, inAvail, outAvail,
                 psec, pn, pspec, pseq, carg, calls, captureVars,
                 playbackVars, pollVars, pubVars>>
  /\ UNCHANGED notProc

(* ------------------- the control thread: get_results ------------------- *)

\* A get_results that hands out a copy and leaves the slot as it is.
KeepSlot(slot) == slot

\* results_guard.take(): what the slot holds afterwards.
TakeSlot(slot) == NoSnapshot

\* History of a get_results call returning v.
PollReturns(v) ==
  /\ prevSome' = (lastRet # NoSnapshot)
  /\ lastRet' = v
  /\ lastRetFresh' = pubSincePoll
  /\ pubSincePoll' = FALSE
  /\ lastPubAtPoll' = IF v # NoSnapshot THEN lastPub ELSE 0
  /\ delivered' = IF v # NoSnapshot THEN Append(delivered, v.seq) ELSE delivered

\* get_results, through self.results.lock(): the call takes the slot mutex
\* (waiting while it is held); None is returned when it is poisoned.
PollLock ==
  /\ alive /\ cpc = "idle"
  /\ IF "results" \in poisoned
     THEN /\ PollReturns(NoSnapshot)
          /\ UNCHANGED <<cpc, lock>>
     ELSE /\ MutexFree("results")
          /\ lock' = Acquire("results", "ctl")
          /\ cpc' = "get_run"
          /\ UNCHANGED <<pollVars, pubSincePoll>>
  /\ UNCHANGED <<alive, flagVars, deviceVars, filter_chain, fft_size, results,
                 output_producer, poisoned, inAvail, outAvail, procThreadVars,
                 carg, calls, captureVars, playbackVars, lastPub, overwritten>>
  /\ UNCHANGED notProc

\* get_results: results_guard.take()
PollTake ==
  /\ alive /\ cpc = "get_run"
  /\ PollReturns(results)
  /\ results' = TakeSlot(results)
  /\ lock' = Release("results")
  /\ cpc' = "idle"
  /\ UNCHANGED <<alive, flagVars, deviceVars, filter_chain, fft_size,
                 output_producer, poisoned, inAvail, outAvail, procThreadVars,
                 carg, calls, captureVars, playbackVars, lastPub, overwritten>>
  /\ UNCHANGED notProc

CtlNext ==
  \/ CtlLock \/ DesignCall \/ DesignInstall \/ GateCall \/ GateInstall
  \/ SetBypass \/ FftCall \/ FftApply \/ EnableCall \/ EnableStore
  \/ EnableOpen \/ DisableCall \/ DisableClear \/ StartCall \/ StartConfigure
  \/ StartSpawn \/ StopCall \/ StopJoin \/ PollLock \/ PollTake

(* -------------------------- the device callbacks ----------------------- *)

\* The mutexes the capture callback locks, in order: the producer alone in the
\* passthrough callback; the input buffer, the resampler and the producer in
\* the resampling callback.  All are created inside from_device and cloned into
\* the callback only.
CaptureLocks(rs) ==
  IF rs THEN <<"in_buffer", "in_resampler", "in_producer">>
  ELSE <<"in_producer">>

\* A playback callback that reaches the consumer through a mutex of the processor.
PlaybackLocksShared == <<"outprod">>

\* The mutex the playback callback locks: the consumer, created inside
\* from_device and cloned into the callback only.
PlaybackLocks == <<"out_consumer">>

\* The lock map with every mutex of the sequence held released.
ReleaseAll(held) ==
  [l \in LockNames |->
     IF \E k \in 1..Len(held) : held[k] = l THEN "free" ELSE lock[l]]

\* The device invokes the capture callback with a slice of samples; the
\* length of the slice plays no part before the write.
CaptureFire ==
  /\ alive /\ audio_input /\ cbpc = "idle"
  /\ captures < MaxCaptures
  /\ cbpc' = "lock"
  /\ captures' = captures + 1
  /\ UNCHANGED <<alive, flagVars, deviceVars, filter_chain, fft_size, results,
                 output_producer, lock, poisoned, inAvail, outAvail,
                 procThreadVars, ctlVars, cbheld, playbackVars, pollVars,
                 pubVars>>
  /\ UNCHANGED notProc

\* if let Ok(..) = <mutex>.lock() in the capture callback: the next mutex of
\* its list is taken when free; the callback parks in lock() when it is held.
CaptureLock ==
  /\ alive /\ cbpc \in {"lock", "wait"}
  /\ LET l == CaptureLocks(resampling)[Len(cbheld) + 1]
     IN  IF lock[l] = "free"
         THEN /\ lock' = Acquire(l, "capture")
              /\ cbheld' = Append(cbheld, l)
              /\ cbpc' = IF Len(cbheld) + 1 = Len(CaptureLocks(resampling))
                         THEN "run" ELSE "lock"
         ELSE /\ cbpc = "lock"
              /\ cbpc' = "wait"
              /\ UNCHANGED <<lock, cbheld>>
  /\ UNCHANGED <<alive, flagVars, deviceVars, filter_chain, fft_size, results,
                 output_producer, poisoned, inAvail, outAvail, procThreadVars,
                 ctlVars, captures, playbackVars, pollVars, pubVars>>
  /\ UNCHANGED notProc

\* prod.write(..): the passthrough callback writes its slice, of any of the
\* lengths the device delivers; the resampling callback writes the resampler
\* output once a chunk is complete, else nothing.
CaptureWrite ==
  /\ alive /\ cbpc = "run"
  /\ \E w \in (IF resampling THEN {0} \cup CaptureLens ELSE CaptureLens) :
       inAvail' = inAvail + Min(w, RingCapacity - inAvail)
  /\ lock' = ReleaseAll(cbheld)
  /\ cbheld' = <<>>
  /\ cbpc' = "idle"
  /\ UNCHANGED <<alive, flagVars, deviceVars, filter_chain, fft_size, results,
                 output_producer, poisoned, outAvail, procThreadVars, ctlVars,
                 captures, playbackVars, pollVars, pubVars>>
  /\ UNCHANGED notProc

\* The device invokes the playback callback with a slice to fill.
PlaybackFire ==
  /\ alive /\ audio_output /\ pbpc = "idle"
  /\ \E len \in PlaybackLens : pblen' = len
  /\ pbpc' = "lock"
  /\ UNCHANGED <<alive, flagVars, deviceVars, filter_chain, fft_size, results,
                 output_producer, lock, poisoned, inAvail, outAvail,
                 procThreadVars, ctlVars, captureVars, pbheld, pollVars,
                 pubVars>>
  /\ UNCHANGED notProc

\* if let Ok(mut cons) = consumer_clone.lock() in the playback callback.
PlaybackLock ==
  /\ alive /\ pbpc \in {"lock", "wait"}
  /\ LET l == PlaybackLocks[Len(pbheld) + 1]
     IN  IF lock[l] = "free"
         THEN /\ lock' = Acquire(l, "playback")
              /\ pbheld' = Append(pbheld, l)
              /\ pbpc' = "run"
         ELSE /\ pbpc = "lock"
              /\ pbpc' = "wait"
              /\ UNCHANGED <<lock, pbheld>>
  /\ UNCHANGED <<alive, flagVars, deviceVars, filter_chain, fft_size, results,
                 output_producer, poisoned, inAvail, outAvail, procThreadVars,
                 ctlVars, captureVars, pblen, pollVars, pubVars>>
  /\ UNCHANGED notProc

\* cons.read(&mut samples), the conversion and the zero fill.
PlaybackRead ==
  /\ alive /\ pbpc = "run"
  /\ outAvail' = outAvail - Min(pblen, outAvail)
  /\ lock' = ReleaseAll(pbheld)
  /\ pbheld' = <<>>
  /\ pblen' = 0
  /\ pbpc' = "idle"
  /\ UNCHANGED <<alive, flagVars, deviceVars, filter_chain, fft_size, results,
                 output_producer, poisoned, inAvail, procThreadVars, ctlVars,
                 captureVars, pollVars, pubVars>>
  /\ UNCHANGED notProc

CallbackNext ==
  \/ CaptureFire \/ CaptureLock \/ CaptureWrite
  \/ PlaybackFire \/ PlaybackLock \/ PlaybackRead

NextProc == ProcNext \/ CtlNext \/ CallbackNext

(* ------------------------ claims on the processor ---------------------- *)

\* C1: get_results has take semantics: it returns a snapshot only if a block
\* was published since the previous call, and it clears the slot, so the slot
\* stays empty until the next publish and a second call with no publish in
\* between returns None.
C1_TakeSemantics ==
  /\ lastRet # NoSnapshot => lastRetFresh
  /\ ~pubSincePoll => results = NoSnapshot

\* Two get_results calls with no block published in between: the first
\* returned a snapshot, the second None.
C1_Witness ==
  /\ cpc = "idle"
  /\ prevSome
  /\ lastRet = NoSnapshot
  /\ ~lastRetFresh
  /\ ppc \in {"read", "sleep", "check"}

\* C2: latest-wins delivery: under every interleaving, a snapshot returned by
\* get_results is the most recently published one, no snapshot is returned by
\* two calls, and a snapshot overwritten before being polled is never returned.
C2_LatestWins ==
  /\ lastRet # NoSnapshot => lastRet.seq = lastPubAtPoll
  /\ \A i, j \in 1..Len(delivered) : i # j => delivered[i] # delivered[j]
  /\ \A i \in 1..Len(delivered) : delivered[i] \notin overwritten

\* The first snapshot was overwritten unpolled and get_results returned the second.
C2_Witness ==
  /\ 1 \in overwritten
  /\ lastRet.seq = 2
  /\ delivered = <<2>>

\* C7: after design_filter installed a filter of any designed length, the
\* in-place filtering of the next block returns: the processing thread is never
\* left inside the filter-chain step by a crash or a call that cannot return.
C7_FilteringReturns == ppc \notin RecursionOutcomes

\* C8: the processing thread ends only because stop() cleared the running
\* flag, whatever control calls are made while it runs (stated for runs in
\* which no FrequencyDomainFilter is installed, the case of C7).
C8_OnlyStopEndsThread ==
  (ppc \in {"exited", "panicked"} /\ filter_chain.user.kind # "fastfir")
    => ~running

\* C9: the processing thread never waits for the filter-chain, analyzer,
\* snapshot-slot or output-producer mutex: finding it held, it skips the step.
C9_ProcNeverWaits == ppc # "wait"

\* C10: under every interleaving with the processing thread and the control
\* calls, the capture and playback callbacks never wait for a mutex.
C10_CallbacksNeverWait == cbpc # "wait" /\ pbpc # "wait"

\* The resampling capture callback holds its three mutexes and the playback
\* callback holds its mutex while the processing thread is inside a guarded
\* section of the loop.
C10_Witness ==
  /\ cbpc = "run" /\ Len(cbheld) = 3
  /\ pbpc = "run"
  /\ ppc = "run"

\* The processing thread is inside the filter-chain pass of a block: it holds
\* the chain guard and has not left the for loop over the slots.
Filtering == psec = "chain" /\ ppc \in {"run", "recursing"}

\* The control thread is at the store into a chain slot, inside the guarded
\* block of design_filter or configure_noise_gate.
Installing == cpc \in {"design_run", "gate_run"}

\* C35: design_filter and configure_noise_gate never change a chain slot
\* while the processing thread is filtering a block: all through the chain
\* pass the thread holds the chain guard and neither call is at its store
\* into the chain, so the block is processed from the first to the last
\* sample by one chain configuration and a new filter is installed at a
\* block boundary.
C35_ChainFixedWhileFiltering ==
  Filtering => (lock["chain"] = "proc" /\ ~Installing)

\* The thread is filtering a block while configure_noise_gate has stored its
\* flag and is waiting in filter_chain.lock() to install the gate.
C35_Witness ==
  /\ Filtering /\ ppc = "run"
  /\ cpc = "gate_lock"
  /\ lock["chain"] = "proc"

(***************************************************************************)
(* Part 4.  NoiseGate (audio/gate.rs)                                      *)
(*                                                                         *)
(* Amplitudes are integers.  The envelope and the squared envelope are     *)
(* kept as numerators over GateScale, and every smoothing coefficient is   *)
(* counted in halves (0 for a time constant of 0 ms, 1/2 for a positive   *)
(* one, 3/2 for a negative one), so that the recurrences are exact          *)
(* for as many samples as GateScale has factors of two.  Levels are        *)
(* compared in the power domain, 3 dB taken as a factor of two.            *)
(***************************************************************************)

\* Number of samples a gate processes between two resets.
MaxGateSamples == 5

\* Denominator of envelope and envelope_squared.
GateScale == 2 ^ MaxGateSamples

\* let hysteresis_db = 3.0
HysteresisDb == 3

\* threshold_db values explored, in dB relative to a squared envelope of 1.
GateThresholds == {0, 3}

\* release_ms values explored, and attack_ms values of the chain part.
GateTimes == {0, 10}

\* attack_ms values explored on the gate alone; the setters take any f64.
GateAttackTimes == {-10, 0, 10}

\* Sample amplitudes explored.
GateInputs == {0, 1, 2}

\* time_constant_to_coeff: exp(-1 / (tau * sample_rate)), in halves: 0 for a
\* time of 0 (exp of minus infinity), below 1 for a positive time, above 1 for
\* a negative time (exp of a positive number).
TimeConstantToCoeff(ms) == IF ms = 0 THEN 0 ELSE IF ms > 0 THEN 1 ELSE 3

\* rms_coeff = time_constant_to_coeff(50.0, sample_rate), in halves.
RmsCoeff == TimeConstantToCoeff(50)

\* NoiseGate::new
GateNew(threshold_db, attack_ms, release_ms) ==
  [threshold_db |-> threshold_db,
   attack_coeff |-> TimeConstantToCoeff(attack_ms),
   release_coeff |-> TimeConstantToCoeff(release_ms),
   envelope |-> 0,
   envelope_squared |-> 0,
   is_open |-> FALSE,
   age |-> 0]

\* The squared envelope (a numerator over GateScale) whose level is db.
PowerOf(db) ==
  IF db >= 0 THEN GateScale * 2 ^ (db \div 3)
  ELSE GateScale \div 2 ^ ((0 - db) \div 3)

\* level_db >= db, for level_db = 20 * log10(sqrt(envelope_squared) + 1e-10)
LevelAtLeast(envelope_squared, db) == envelope_squared >= PowerOf(db)

\* rms_coeff * envelope_squared + (1 - rms_coeff) * input * input
SquaredEnvelopeNext(envelope_squared, input) ==
  (RmsCoeff * envelope_squared + (2 - RmsCoeff) * input * input * GateScale) \div 2

\* A gate that closes as soon as the level is under the threshold.
GateOpenNoHysteresis(is_open, envelope_squared, threshold_db) ==
  LevelAtLeast(envelope_squared, threshold_db)

\* process_sample: the open/closed decision.
GateOpenNext(is_open, envelope_squared, threshold_db) ==
  IF is_open
  THEN LevelAtLeast(envelope_squared, threshold_db - HysteresisDb)
  ELSE LevelAtLeast(envelope_squared, threshold_db)

\* process_sample: the gate after the sample.
GateAfterSample(g, input) ==
  LET esq == SquaredEnvelopeNext(g.envelope_squared, input)
      open == GateOpenNext(g.is_open, esq, g.threshold_db)
      target_gain == IF open THEN GateScale ELSE 0
      coeff == IF target_gain > g.envelope THEN g.attack_coeff
               ELSE g.release_coeff
  IN  [g EXCEPT !.envelope_squared = esq,
                !.is_open = open,
                !.envelope = (coeff * g.envelope + (2 - coeff) * target_gain) \div 2,
                !.age = g.age + 1]

\* process_sample: the value returned, input * envelope (over GateScale).
GateOutput(g, input) == input * GateAfterSample(g, input).envelope

\* A setter that rebuilds the gate around the new threshold.
GateSetThresholdFresh(g, threshold_db) ==
  [GateNew(threshold_db, 0, 0) EXCEPT !.attack_coeff = g.attack_coeff,
                                      !.release_coeff = g.release_coeff]

\* set_threshold
GateSetThreshold(g, threshold_db) == [g EXCEPT !.threshold_db = threshold_db]

\* set_attack_time
GateSetAttackTime(g, attack_ms) ==
  [g EXCEPT !.attack_coeff = TimeConstantToCoeff(attack_ms)]

\* set_release_time
GateSetReleaseTime(g, release_ms) ==
  [g EXCEPT !.release_coeff = TimeConstantToCoeff(release_ms)]

\* reset
GateReset(g) ==
  [g EXCEPT !.envelope = 0, !.envelope_squared = 0, !.is_open = FALSE, !.age = 0]

\* A gate freshly built by NoiseGate::new.
InitGate ==
  /\ \E t \in GateThresholds, a \in GateAttackTimes, r \in GateTimes :
       ngate = GateNew(t, a, r)
  /\ gop = "new"
  /\ gbefore = ngate
  /\ gio = [input |-> 0, output |-> 0]

\* One call of process_sample.
GateSampleCall ==
  /\ ngate.age < MaxGateSamples
  /\ \E x \in GateInputs :
       /\ ngate' = GateAfterSample(ngate, x)
       /\ gio' = [input |-> x, output |-> GateOutput(ngate, x)]
  /\ gop' = "sample"
  /\ gbefore' = ngate
  /\ UNCHANGED notGate

\* One call of set_threshold.
GateSetThresholdCall ==
  /\ \E t \in GateThresholds : ngate' = GateSetThreshold(ngate, t)
  /\ gop' = "set_threshold"
  /\ gbefore' = ngate
  /\ UNCHANGED gio
  /\ UNCHANGED notGate

\* One call of set_attack_time.
GateSetAttackCall ==
  /\ \E a \in GateAttackTimes : ngate' = GateSetAttackTime(ngate, a)
  /\ gop' = "set_attack_time"
  /\ gbefore' = ngate
  /\ UNCHANGED gio
  /\ UNCHANGED notGate

\* One call of set_release_time.
GateSetReleaseCall ==
  /\ \E r \in GateTimes : ngate' = GateSetReleaseTime(ngate, r)
  /\ gop' = "set_release_time"
  /\ gbefore' = ngate
  /\ UNCHANGED gio
  /\ UNCHANGED notGate

\* One call of reset.
GateResetCall ==
  /\ ngate' = GateReset(ngate)
  /\ gop' = "reset"
  /\ gbefore' = ngate
  /\ UNCHANGED gio
  /\ UNCHANGED notGate

NextGate ==
  \/ GateSampleCall \/ GateSetThresholdCall \/ GateSetAttackCall
  \/ GateSetReleaseCall \/ GateResetCall

\* C15: the gate starts Closed; a sample takes it from Closed to Open only if
\* the measured level is at least the threshold, from Open to Closed only if
\* the level is under threshold - 3 dB, and it stays Open on a sample whose
\* level lies in [threshold - 3 dB, threshold).
C15_Hysteresis ==
  /\ gop = "new" => ~ngate.is_open
  /\ gop = "sample" =>
       LET level == ngate.envelope_squared
           thr == gbefore.threshold_db
       IN  /\ (~gbefore.is_open /\ ngate.is_open) => LevelAtLeast(level, thr)
           /\ (gbefore.is_open /\ ~ngate.is_open)
                => ~LevelAtLeast(level, thr - HysteresisDb)
           /\ (gbefore.is_open /\ LevelAtLeast(level, thr - HysteresisDb)
                 /\ ~LevelAtLeast(level, thr))
                => ngate.is_open

\* An open gate has just processed a sample whose level is under the threshold
\* and within 3 dB of it, and is still open.
C15_Witness ==
  /\ gop = "sample"
  /\ gbefore.is_open /\ ngate.is_open
  /\ ~LevelAtLeast(ngate.envelope_squared, gbefore.threshold_db)
  /\ LevelAtLeast(ngate.envelope_squared, gbefore.threshold_db - HysteresisDb)

\* C27: after any sequence of samples and of set_threshold, set_attack_time
\* and set_release_time calls the gain envelope lies in [0, 1], so that the
\* sample returned is never larger in magnitude than the sample given; reset()
\* leaves envelope 0, squared envelope 0 and the gate Closed.
C27_EnvelopeRange ==
  /\ 0 <= ngate.envelope /\ ngate.envelope <= GateScale
  /\ 0 <= gio.output /\ gio.output <= gio.input * GateScale
  /\ gop = "reset" =>
       (ngate.envelope = 0 /\ ngate.envelope_squared = 0 /\ ~ngate.is_open)

\* C16: set_threshold, set_attack_time and set_release_time change only their
\* own parameter; envelope, envelope_squared and is_open are as before the call.
C16_SettersKeepState ==
  /\ gop = "set_threshold"
       => ngate = [gbefore EXCEPT !.threshold_db = ngate.threshold_db]
  /\ gop = "set_attack_time"
       => ngate = [gbefore EXCEPT !.attack_coeff = ngate.attack_coeff]
  /\ gop = "set_release_time"
       => ngate = [gbefore EXCEPT !.release_coeff = ngate.release_coeff]

\* set_threshold has just changed the threshold of an open gate whose envelope
\* and squared envelope are not zero.
C16_Witness ==
  /\ gop = "set_threshold"
  /\ ngate.threshold_db # gbefore.threshold_db
  /\ gbefore.is_open /\ gbefore.envelope > 0 /\ gbefore.envelope_squared > 0

(***************************************************************************)
(* Part 5.  Filter design and the filter chain                             *)
(* (filters/windows.rs, filters/design.rs, audio/processor.rs)             *)
(*                                                                         *)
(* design_filter, configure_noise_gate and the filter-chain pass of the    *)
(* processing loop all work on the chain under its mutex, so they are      *)
(* taken here one call at a time.  Frequencies are multiples of pi /       *)
(* TransDen.  The windowed-sinc coefficient values are real numbers and    *)
(* are not computed: a designed filter keeps its length, and filters the   *)
(* samples with a short integer kernel in their place.  Samples travel     *)
(* through the chain as numerators over GateScale.                         *)
(***************************************************************************)

\* Number of calls in a run.
MaxChainCalls == 3

\* Longest block handed to the chain.
MaxChainBlock == 2

\* delta_omega = pi * dn / TransDen.
TransDen == 20

\* Numerators of delta_omega explored: negative, zero, 0.05 pi, 0.1 pi, 0.35 pi.
TransNums == {0 - 1, 0, 1, 2, 7}

\* <<omega_c1, omega_c2>> explored, in tenths of pi: below, equal, above.
CutoffPairs == {<<4, 6>>, <<5, 5>>, <<6, 4>>}

\* Sample amplitudes handed to the chain.
ChainInputs == {0, 2}

WindowTypes == {"Hann", "Hamming", "Blackman", "Rectangular"}

FilterTypes == {"Bandpass", "Lowpass", "Highpass"}

\* <<filter type, cutoffs>> explored: every pair for a bandpass, whose design
\* alone reads both cutoffs; one pair for the types that read one cutoff.
DesignRequests ==
  {<<ft, cp>> \in FilterTypes \X CutoffPairs :
     ft = "Bandpass" \/ cp = <<4, 6>>}

\* usize::MAX, the result of casting +infinity to usize; the largest integer
\* of the model stands for it.  Like usize::MAX it is odd.
UsizeMax == 2147483647

\* let a = match self { Hann => 8.0, Hamming => 8.0, Blackman => 12.0, Rectangular => 4.0 }
WindowA(window_type) ==
  CASE window_type = "Hann" -> 8
    [] window_type = "Hamming" -> 8
    [] window_type = "Blackman" -> 12
    [] window_type = "Rectangular" -> 4

\* f64::ceil of n / d for d > 0.
CeilDiv(n, d) == (n + d - 1) \div d

\* (a * PI / delta_omega).ceil() as usize: the cast saturates, a negative
\* quotient gives 0 and the infinite quotient of delta_omega = 0 usize::MAX.
CeilAsUsize(a, dn, dd) ==
  IF dn > 0 THEN CeilDiv(a * dd, dn)
  ELSE IF dn = 0 THEN UsizeMax
  ELSE 0

\* A length left as it is, odd or even.
KeepLength(m) == m

\* if m % 2 == 0 { m + 1 } else { m }
OddLength(m) == IF m % 2 = 0 THEN m + 1 ELSE m

\* WindowType::calculate_filter_length, delta_omega = pi * dn / dd.
CalculateFilterLength(window_type, dn, dd) ==
  OddLength(CeilAsUsize(WindowA(window_type), dn, dd))

\* Vec::with_capacity(length) of f64: more than isize::MAX bytes is a
\* "capacity overflow" panic.
AllocPanics(length) == length = UsizeMax

\* The integer kernel that filters in place of the designed coefficients.
KernelOf(length) == IF length = 1 THEN <<1>> ELSE <<1, 1>>

\* None
EmptySlot == [kind |-> "none"]

\* Some(Box::new(NoiseGate::new(..)))
GateSlot(g) == [kind |-> "gate", gate |-> g]

\* A user filter of any length built as a FirFilter.
FilterSlotAlwaysFir(length) ==
  [kind |-> "fir", len |-> length,
   h |-> KernelOf(length),
   st |-> [k \in 0..(Len(KernelOf(length)) - 1) |-> 0],
   cur |-> 0]

\* Some(new_filter): FirFilter::new(coeffs) or FastFirFilter::new(coeffs, 2048),
\* delay line zeroed.
FilterSlot(length) ==
  [kind |-> NewFilter(length).kind, len |-> length,
   h |-> KernelOf(length),
   st |-> [k \in 0..(Len(KernelOf(length)) - 1) |-> 0],
   cur |-> 0]

RECURSIVE GateRun(_, _, _)
\* NoiseGate::process_block_inplace: process_sample over the block.
\* Yields the gate after the block and the gated samples.
GateRun(g, input, out) ==
  IF input = <<>> THEN [gate |-> g, out |-> out]
  ELSE GateRun(GateAfterSample(g, Head(input) \div GateScale), Tail(input),
               Append(out, GateOutput(g, Head(input) \div GateScale)))

\* FilterTrait::process_block_inplace on the filter of a slot: the slot
\* after the block, the block after the filter, and whether the call returns.
SlotProcess(slot, blk) ==
  CASE slot.kind = "gate" ->
         LET r == GateRun(slot.gate, blk, <<>>)
         IN  [slot |-> GateSlot(r.gate), blk |-> r.out, returns |-> TRUE]
    [] slot.kind = "fir" ->
         LET r == FirRun(slot.h, slot.st, slot.cur, blk, <<>>)
         IN  [slot |-> [slot EXCEPT !.st = r.st, !.cur = r.cur],
              blk |-> r.out, returns |-> TRUE]
    [] slot.kind = "fastfir" ->
         [slot |-> slot, blk |-> blk, returns |-> FALSE]

\* The slots visited last to first.
IterOrderReversed(n) == [k \in 1..n |-> n + 1 - k]

\* chain_guard.iter_mut(): the slots in index order.
IterOrder(n) == [k \in 1..n |-> k]

RECURSIVE RunSlots(_, _, _, _)
\* for filter_opt in chain_guard.iter_mut() { if let Some(filter) = filter_opt
\*   { filter.process_block_inplace(&mut filtered_buffer[..n]) } }
\* from the k-th slot visited on; trace lists the slots entered (0-based).
RunSlots(sl, k, blk, trace) ==
  IF k > Len(sl)
  THEN [chain |-> sl, blk |-> blk, trace |-> trace, ret |-> "ok"]
  ELSE LET i == IterOrder(Len(sl))[k]
       IN  IF sl[i].kind = "none"
           THEN RunSlots(sl, k + 1, blk, trace)
           ELSE LET r == SlotProcess(sl[i], blk)
                IN  IF r.returns
                    THEN RunSlots([sl EXCEPT ![i] = r.slot], k + 1, r.blk,
                                  Append(trace, i - 1))
                    ELSE [chain |-> sl, blk |-> blk,
                          trace |-> Append(trace, i - 1), ret |-> "no_return"]

\* A loop body that runs the chain whatever the bypass flag says.
BlockPassAlwaysFilter(byp, sl, blk) == RunSlots(sl, 1, blk, <<>>)

\* let filtered_len = if bypass.load(SeqCst) { n } else { filter chain; n }:
\* filtered_buffer keeps the copy of the captured samples when bypass is set.
BlockPass(byp, sl, blk) ==
  IF byp
  THEN [chain |-> sl, blk |-> blk, trace |-> <<>>, ret |-> "ok"]
  ELSE RunSlots(sl, 1, blk, <<>>)

\* The captured samples as numerators over GateScale.
Scaled(input) == [k \in 1..Len(input) |-> input[k] * GateScale]

\* Blocks of 1 .. MaxChainBlock samples.
ChainBlocks ==
  UNION {[1..n -> ChainInputs] : n \in 1..MaxChainBlock}

\* The record of a call before its fields are filled in.
NoCall ==
  [op |-> "new", filter_type |-> "none", window_type |-> "none",
   omega_c1 |-> 0, omega_c2 |-> 0, dn |-> 0, enabled |-> FALSE,
   bypass |-> FALSE, input |-> <<>>, ret |-> "none", length |-> 0,
   delay_halves |-> 0, output |-> <<>>, trace |-> <<>>,
   before |-> <<EmptySlot, EmptySlot>>]

\* AudioProcessor::new: filter_chain = vec![None, None]
InitDsg ==
  /\ chain = <<EmptySlot, EmptySlot>>
  /\ called = NoCall
  /\ ncalls = 0

\* No call is made once the filter-chain pass has failed to return: it holds
\* the chain mutex.
ChainCallable == ncalls < MaxChainCalls /\ called.ret # "no_return"

\* design_filter: the coefficients are designed (calculate_filter_length,
\* generate_window), the filter is built and stored in slot 1, and
\* Ok((filter_length, group_delay)) is returned.  An allocation that panics
\* unwinds out of the call before the chain is touched.
DesignFilterCall ==
  /\ ChainCallable
  /\ \E rq \in DesignRequests, w \in WindowTypes, dn \in TransNums :
       LET ft == rq[1]
           cp == rq[2]
           m == CalculateFilterLength(w, dn, TransDen)
           c == [NoCall EXCEPT !.op = "design_filter", !.filter_type = ft,
                               !.window_type = w, !.omega_c1 = cp[1],
                               !.omega_c2 = cp[2], !.dn = dn, !.before = chain]
       IN  IF AllocPanics(m)
           THEN /\ chain' = chain
                /\ called' = [c EXCEPT !.ret = "panic"]
           ELSE /\ chain' = [chain EXCEPT ![2] = FilterSlot(m)]
                /\ called' = [c EXCEPT !.ret = "ok", !.length = m,
                                       !.delay_halves = m - 1]
  /\ ncalls' = ncalls + 1
  /\ UNCHANGED notDsg

\* configure_noise_gate: chain_guard[0] = Some(NoiseGate::new(..)) or None
ConfigureGateCall ==
  /\ ChainCallable
  /\ \E en \in BOOLEAN, t \in GateThresholds, a \in GateTimes, r \in GateTimes :
       /\ chain' = [chain EXCEPT ![1] = IF en THEN GateSlot(GateNew(t, a, r))
                                        ELSE EmptySlot]
       /\ called' = [NoCall EXCEPT !.op = "configure_noise_gate",
                                   !.enabled = en, !.before = chain]
  /\ ncalls' = ncalls + 1
  /\ UNCHANGED notDsg

\* The loop body on one captured block: the block as it is when bypass is
\* set, through the chain otherwise.
ChainBlockStep ==
  /\ ChainCallable
  /\ chain[1].kind = "gate" => chain[1].gate.age + MaxChainBlock <= MaxGateSamples
  /\ \E byp \in BOOLEAN, x \in ChainBlocks :
       LET c == [NoCall EXCEPT !.op = "process", !.bypass = byp, !.input = x,
                               !.before = chain]
           r == BlockPass(byp, chain, Scaled(x))
       IN  /\ chain' = r.chain
           /\ called' = [c EXCEPT !.ret = r.ret, !.output = r.blk,
                                  !.trace = r.trace]
  /\ ncalls' = ncalls + 1
  /\ UNCHANGED notDsg

NextDsg == DesignFilterCall \/ ConfigureGateCall \/ ChainBlockStep

\* A design request the specification calls invalid: a bandpass whose lower
\* cutoff is not below the upper one, or a transition width that is not positive.
InvalidRequest(c) ==
  \/ (c.filter_type = "Bandpass" /\ c.omega_c1 >= c.omega_c2)
  \/ c.dn <= 0

\* C11: design_filter rejects an invalid request (bandpass with omega_c1 >=
\* omega_c2, or a non-positive transition width) with a DesignError: it does
\* not panic and installs nothing.
C11_InvalidRejected ==
  (called.op = "design_filter" /\ InvalidRequest(called))
    => (called.ret = "design_error" /\ chain = called.before)

\* C14: configure_noise_gate(enabled = true) on a chain whose slot 0 already
\* holds a gate keeps that gate's envelope, squared envelope and open flag.
C14_GateStateKept ==
  (called.op = "configure_noise_gate" /\ called.enabled
     /\ called.before[1].kind = "gate")
    => /\ chain[1].kind = "gate"
       /\ chain[1].gate.envelope = called.before[1].gate.envelope
       /\ chain[1].gate.envelope_squared = called.before[1].gate.envelope_squared
       /\ chain[1].gate.is_open = called.before[1].gate.is_open

\* C18: for every window and every positive transition width the designed
\* length is odd and is ceil(A * pi / delta_omega) rounded up to the next odd
\* number, that is the least odd integer not below A * pi / delta_omega, with
\* A = 8 for Hann and Hamming, 12 for Blackman and 4 for Rectangular; at
\* delta_omega = 0.05 pi it is 161 for Hann and Hamming and 241 for Blackman.
C18_OddLength ==
  (called.op = "design_filter" /\ called.dn > 0) =>
    LET a == IF called.window_type = "Blackman" THEN 12
             ELSE IF called.window_type = "Rectangular" THEN 4 ELSE 8
        len == called.length
    IN  /\ called.ret = "ok"
        /\ len % 2 = 1
        /\ len * called.dn >= a * TransDen
        /\ (len - 2) * called.dn < a * TransDen
        /\ (20 * called.dn = TransDen /\ called.window_type \in {"Hann", "Hamming"})
             => len = 161
        /\ (20 * called.dn = TransDen /\ called.window_type = "Blackman")
             => len = 241

\* A Hann design whose transition width of 0.1 pi gives the even quotient 80
\* has come out with 81 taps.
C18_Witness ==
  /\ called.op = "design_filter" /\ called.ret = "ok"
  /\ called.window_type = "Hann" /\ 10 * called.dn = TransDen
  /\ called.length = 81

\* C19: a design_filter call that returns Ok has stored exactly one new filter
\* in slot 1 and left slot 0 as it was; the filter is a FirFilter when the
\* length is at most 128 and a FastFirFilter when it is above; the pair
\* returned is (length, (length - 1) / 2).
C19_DesignInstalls ==
  (called.op = "design_filter" /\ called.ret = "ok") =>
    /\ chain[1] = called.before[1]
    /\ chain[2].kind = (IF called.length <= 128 THEN "fir" ELSE "fastfir")
    /\ chain[2].len = called.length
    /\ called.delay_halves = called.length - 1
    /\ called.length >= 1

\* design_filter has returned Ok with more than 128 taps on a chain whose
\* slot 0 holds a gate and whose slot 1 held a direct-form filter.
C19_Witness ==
  /\ called.op = "design_filter" /\ called.ret = "ok"
  /\ called.length > 128
  /\ called.before[1].kind = "gate" /\ called.before[2].kind = "fir"
  /\ chain[2].kind = "fastfir"

\* C21: a block processed with the bypass flag set comes out as it went in,
\* sample for sample, and leaves every filter of the chain as it was: the
\* gate's envelope, squared envelope and open flag, and the user filter's
\* delay line.
C21_BypassFrame ==
  (called.op = "process" /\ called.bypass) =>
    /\ called.ret = "ok"
    /\ called.output = Scaled(called.input)
    /\ chain = called.before

\* A block with a sample that is not zero has been processed with bypass set
\* on a chain that holds a gate and a direct-form filter.
C21_Witness ==
  /\ called.op = "process" /\ called.bypass
  /\ called.before[1].kind = "gate" /\ called.before[2].kind = "fir"
  /\ \E k \in 1..Len(called.input) : called.input[k] # 0

\* C20: with bypass not set, a block enters the non-empty slots of the chain
\* in the order slot 0 (gate), slot 1 (user filter), an empty slot being
\* skipped: the gate sees the captured samples, the user filter sees what the
\* gate put out, and the block that comes back is the output of the last one.
C20_ChainOrder ==
  (called.op = "process" /\ ~called.bypass) =>
    LET b == called.before
        x == Scaled(called.input)
        g == IF b[1].kind = "gate" THEN GateRun(b[1].gate, x, <<>>)
             ELSE [gate |-> 0, out |-> x]
        f == IF b[2].kind = "fir"
             THEN FirRun(b[2].h, b[2].st, b[2].cur, g.out, <<>>)
             ELSE [out |-> g.out, st |-> 0, cur |-> 0]
    IN  /\ called.trace = (IF b[1].kind = "none" THEN <<>> ELSE <<0>>)
                            \o (IF b[2].kind = "none" THEN <<>> ELSE <<1>>)
        /\ b[1].kind = "gate" => chain[1] = GateSlot(g.gate)
        /\ called.ret = "ok" =>
             /\ called.output = f.out
             /\ b[2].kind = "fir" => (chain[2].st = f.st /\ chain[2].cur = f.cur)

\* A block has gone through a gate that opened on it and then through a
\* direct-form filter, and has come back with a sample that is not zero.
C20_Witness ==
  /\ called.op = "process" /\ ~called.bypass /\ called.ret = "ok"
  /\ called.before[1].kind = "gate" /\ called.before[2].kind = "fir"
  /\ called.trace = <<0, 1>>
  /\ chain[1].gate.is_open
  /\ \E k \in 1..Len(called.output) : called.output[k] > 0

(***************************************************************************)
(* Part 6.  Lifecycle: start, stop, monitoring and the threads they spawn  *)
(* (audio/processor.rs)                                                    *)
(*                                                                         *)
(* Every successful start spawns a thread of its own on a ring buffer of   *)
(* its own; the processor keeps one JoinHandle and one AudioInput.  The    *)
(* loop of a thread is taken in four steps: the test of the running flag,  *)
(* the read, the publication of the snapshot and the push to the output.   *)
(***************************************************************************)

\* Number of processing threads spawned in a run.
MaxThreads == 2

\* Number of control calls in a run.
MaxLifeCalls == 4

ThreadIds == 1..MaxThreads

\* Statements that take effect whatever the fallible call returned.
IgnoreTry(ok, new, old) == new

\* `expr?; statements`: the statements take effect only when expr is Ok.
AfterTry(ok, new, old) == IF ok THEN new ELSE old

\* A processor that has no thread handle, no capture and a cleared flag.
Stopped(p) == ~p.running /\ p.process_thread = 0 /\ p.audio_input = 0

\* The record of a call before its fields are filled in.
NoLifeCall ==
  [call |-> "new", ret |-> "none", was_stopped |-> TRUE,
   producer_before |-> FALSE, spawned_before |-> 0]

\* AudioProcessor::new
InitLife ==
  /\ proc = [running |-> FALSE, process_thread |-> 0, audio_input |-> 0,
             audio_output |-> FALSE, monitoring |-> FALSE,
             output_producer |-> FALSE]
  /\ threads = [t \in ThreadIds |-> "unborn"]
  /\ avail = [t \in ThreadIds |-> FALSE]
  /\ spawned = 0
  /\ lpc = "idle"
  /\ lcalls = 0
  /\ last = NoLifeCall
  /\ quiet = FALSE
  /\ late = {}

\* start: from_default_device and input.start() may fail, and then the call
\* returns before anything is stored.  Otherwise the new input replaces the
\* one held (dropping its stream), running is set, a thread is spawned on the
\* new consumer and its handle replaces the one held.
LifeStart ==
  /\ lpc = "idle" /\ lcalls < MaxLifeCalls
  /\ \E ok \in BOOLEAN :
       /\ ok => spawned < MaxThreads
       /\ LET k == spawned + 1
          IN  /\ proc' = AfterTry(ok, [proc EXCEPT !.audio_input = k,
                                                   !.running = TRUE,
                                                   !.process_thread = k],
                                  proc)
              /\ threads' = IF ok THEN [threads EXCEPT ![k] = "check"] ELSE threads
              /\ spawned' = IF ok THEN k ELSE spawned
       /\ last' = [NoLifeCall EXCEPT !.call = "start",
                                     !.ret = IF ok THEN "ok" ELSE "err",
                                     !.was_stopped = Stopped(proc),
                                     !.spawned_before = spawned]
  /\ quiet' = FALSE
  /\ lcalls' = lcalls + 1
  /\ UNCHANGED <<avail, lpc, late>>
  /\ UNCHANGED notLife

\* stop: running.store(false)
LifeStopStore ==
  /\ lpc = "idle" /\ lcalls < MaxLifeCalls
  /\ proc' = [proc EXCEPT !.running = FALSE]
  /\ lpc' = "stop_join"
  /\ last' = [NoLifeCall EXCEPT !.call = "stop", !.was_stopped = Stopped(proc)]
  /\ lcalls' = lcalls + 1
  /\ UNCHANGED <<threads, avail, spawned, quiet, late>>
  /\ UNCHANGED notLife

\* stop: if let Some(handle) = self.process_thread.take() { handle.join() }
LifeStopJoin ==
  /\ lpc = "stop_join"
  /\ proc.process_thread # 0 => threads[proc.process_thread] = "exited"
  /\ proc' = [proc EXCEPT !.process_thread = 0]
  /\ lpc' = "stop_pause"
  /\ UNCHANGED <<threads, avail, spawned, lcalls, last, quiet, late>>
  /\ UNCHANGED notLife

\* stop: input.pause(); self.audio_input = None; the call returns.
LifeStopRelease ==
  /\ lpc = "stop_pause"
  /\ proc' = [proc EXCEPT !.audio_input = 0]
  /\ lpc' = "idle"
  /\ last' = [last EXCEPT !.ret = "ok"]
  /\ quiet' = TRUE
  /\ late' = {}
  /\ UNCHANGED <<threads, avail, spawned, lcalls>>
  /\ UNCHANGED notLife

\* enable_monitoring: with an output already held the flag is set; otherwise
\* the producer of a new ring buffer is stored in output_producer, then
\* from_default_device and output.start() may fail, and only then are the
\* output kept and the flag set.
LifeEnable ==
  /\ lpc = "idle" /\ lcalls < MaxLifeCalls
  /\ \E ok \in BOOLEAN :
       /\ proc.audio_output => ok
       /\ proc' = IF proc.audio_output
                  THEN [proc EXCEPT !.monitoring = TRUE]
                  ELSE AfterTry(ok, [proc EXCEPT !.output_producer = TRUE,
                                                 !.audio_output = TRUE,
                                                 !.monitoring = TRUE],
                                [proc EXCEPT !.output_producer = TRUE])
       /\ last' = [NoLifeCall EXCEPT !.call = "enable_monitoring",
                                     !.ret = IF ok THEN "ok" ELSE "err",
                                     !.was_stopped = Stopped(proc),
                                     !.producer_before = proc.output_producer]
  /\ lcalls' = lcalls + 1
  /\ UNCHANGED <<threads, avail, spawned, lpc, quiet, late>>
  /\ UNCHANGED notLife

\* disable_monitoring: flag cleared, output paused and dropped, producer cleared.
LifeDisable ==
  /\ lpc = "idle" /\ lcalls < MaxLifeCalls
  /\ proc' = [proc EXCEPT !.monitoring = FALSE, !.audio_output = FALSE,
                          !.output_producer = FALSE]
  /\ last' = [NoLifeCall EXCEPT !.call = "disable_monitoring", !.ret = "ok",
                                !.was_stopped = Stopped(proc),
                                !.producer_before = proc.output_producer]
  /\ lcalls' = lcalls + 1
  /\ UNCHANGED <<threads, avail, spawned, lpc, quiet, late>>
  /\ UNCHANGED notLife

\* The capture callback of the input held writes into its ring buffer.
LifeCapture ==
  /\ proc.audio_input # 0
  /\ ~avail[proc.audio_input]
  /\ avail' = [avail EXCEPT ![proc.audio_input] = TRUE]
  /\ UNCHANGED <<proc, threads, spawned, lpc, lcalls, last, quiet, late>>
  /\ UNCHANGED notLife

\* while running.load(Ordering::SeqCst)
ThreadCheck(t) ==
  /\ threads[t] = "check"
  /\ threads' = [threads EXCEPT ![t] = IF proc.running THEN "read" ELSE "exited"]
  /\ UNCHANGED <<proc, avail, spawned, lpc, lcalls, last, quiet, late>>
  /\ UNCHANGED notLife

\* let n = consumer.read(&mut temp_buffer); if n > 0 { .. } else { sleep }
ThreadRead(t) ==
  /\ threads[t] = "read"
  /\ threads' = [threads EXCEPT ![t] = IF avail[t] THEN "publish" ELSE "check"]
  /\ avail' = [avail EXCEPT ![t] = FALSE]
  /\ UNCHANGED <<proc, spawned, lpc, lcalls, last, quiet, late>>
  /\ UNCHANGED notLife

\* *results_guard = Some(result_buffer.clone())
ThreadPublish(t) ==
  /\ threads[t] = "publish"
  /\ threads' = [threads EXCEPT ![t] = "push"]
  /\ late' = IF quiet THEN late \cup {"publish"} ELSE late
  /\ UNCHANGED <<proc, avail, spawned, lpc, lcalls, last, quiet>>
  /\ UNCHANGED notLife

\* if monitoring.load() { if let Some(producer) = .. { producer.write(..) } }
ThreadPush(t) ==
  /\ threads[t] = "push"
  /\ threads' = [threads EXCEPT ![t] = "check"]
  /\ late' = IF quiet /\ proc.monitoring /\ proc.output_producer
             THEN late \cup {"push"} ELSE late
  /\ UNCHANGED <<proc, avail, spawned, lpc, lcalls, last, quiet>>
  /\ UNCHANGED notLife

NextLife ==
  \/ LifeStart \/ LifeStopStore \/ LifeStopJoin \/ LifeStopRelease
  \/ LifeEnable \/ LifeDisable \/ LifeCapture
  \/ \E t \in ThreadIds :
       ThreadCheck(t) \/ ThreadRead(t) \/ ThreadPublish(t) \/ ThreadPush(t)

\* C12: a start() that fails on a stopped processor leaves it stopped: running
\* is false, no thread has been spawned and no capture is held.
C12_StartFailureStopped ==
  (last.call = "start" /\ last.ret = "err" /\ last.was_stopped) =>
    /\ Stopped(proc)
    /\ spawned = last.spawned_before

\* start() has failed on a processor that had run a thread and been stopped.
C12_Witness ==
  /\ last.call = "start" /\ last.ret = "err" /\ last.was_stopped
  /\ spawned = 1 /\ threads[1] = "exited"

\* C13: an enable_monitoring() that fails leaves the monitoring flag false,
\* no playback held and the output producer slot as it was before the call.
C13_EnableFailureClean ==
  (last.call = "enable_monitoring" /\ last.ret = "err") =>
    /\ ~proc.monitoring
    /\ ~proc.audio_output
    /\ proc.output_producer = last.producer_before

\* C17: from the return of stop() to the next start(), every thread the
\* processor has spawned has exited, no snapshot is published and nothing is
\* pushed to the output channel.
C17_QuietAfterStop ==
  quiet =>
    /\ \A t \in ThreadIds : threads[t] \in {"unborn", "exited"}
    /\ late = {}

\* C33: at any time at most one processing thread of the processor is alive,
\* and the thread handle held by the processor refers to it.
C33_OneLiveThread ==
  LET live == {t \in ThreadIds : threads[t] \notin {"unborn", "exited"}}
  IN  /\ Cardinality(live) <= 1
      /\ \A t \in live : proc.process_thread = t

(***************************************************************************)
(* Part 7.  The calls of FirFilter and FastFirFilter                       *)
(* (filters/fir.rs, filters/fast_fir.rs)                                   *)
(***************************************************************************)

\* Number of calls in a run.
MaxFilterCalls == 4

\* Coefficient vectors explored: one, two and three taps, two of them of the
\* same length.
CoefVectors == {<<2>>, <<1, 2>>, <<3, 1>>, <<1, 2, 3>>}

\* block_size values given to FastFirFilter::new.
FastBlockSizes == {1, 2}

\* Input blocks of 1 .. n samples.
BlocksUpTo(n) == UNION {[1..k -> SampleVals] : k \in 1..n}

\* Blocks handed to the FirFilter: one or two samples.
TdfBlocks == BlocksUpTo(2)

\* vec![0.0; length], indexed 0..length-1
ZeroLine(length) == [i \in 0..(length - 1) |-> 0]

\* FirFilter::new
FirNew(coefficients) ==
  [coefficients |-> coefficients,
   state_buffer |-> ZeroLine(Len(coefficients)),
   cursor |-> 0,
   length |-> Len(coefficients)]

\* An update to another length that reallocates the delay line and leaves
\* the cursor where it is.
FirUpdateKeepCursor(f, coefficients) ==
  IF Len(coefficients) # f.length
  THEN [coefficients |-> coefficients,
        state_buffer |-> ZeroLine(Len(coefficients)),
        cursor |-> f.cursor,
        length |-> Len(coefficients)]
  ELSE [f EXCEPT !.coefficients = coefficients]

\* An update that reallocates the delay line whatever the new length.
FirUpdateAlwaysClear(f, coefficients) == FirNew(coefficients)

\* FirFilter::update_coefficients
FirUpdateCoefficients(f, coefficients) ==
  IF Len(coefficients) # f.length
  THEN [coefficients |-> coefficients,
        state_buffer |-> ZeroLine(Len(coefficients)),
        cursor |-> 0,
        length |-> Len(coefficients)]
  ELSE [f EXCEPT !.coefficients = coefficients]

\* A reset that moves the cursor back and leaves the samples in the delay line.
FirResetNoFill(f) == [f EXCEPT !.cursor = 0]

\* A reset that clears the delay line and leaves the cursor where it is.
FirResetKeepCursor(f) == [f EXCEPT !.state_buffer = ZeroLine(f.length)]

\* FirFilter::reset: self.state_buffer.fill(0.0); self.cursor = 0
FirReset(f) == [f EXCEPT !.state_buffer = ZeroLine(f.length), !.cursor = 0]

\* FirFilter::process_block / process_block_inplace / process_sample (a block
\* of one): process_sample on every sample, in order.
FirProcess(f, input) ==
  LET r == FirRun(f.coefficients, f.state_buffer, f.cursor, input, <<>>)
  IN  [filter |-> [f EXCEPT !.state_buffer = r.st, !.cursor = r.cur],
       out |-> r.out]

\* FastFirFilter::new
FastNew(coefficients, block_size) ==
  [coefficients |-> coefficients,
   block_size |-> block_size,
   fft_size |-> NextPowerOfTwo(block_size + Len(coefficients) - 1),
   overlap |-> [i \in 1..(Len(coefficients) - 1) |-> 0]]

\* FastFirFilter::process_block
FastProcess(f, input) ==
  [filter |-> [f EXCEPT !.overlap = FastTail(f.coefficients, f.block_size,
                                             f.fft_size, f.overlap, input)],
   out |-> FastOutput(f.coefficients, f.block_size, f.fft_size, f.overlap, input)]

\* No twin filter is being kept.
NoTwin == [live |-> FALSE, filter |-> FirNew(<<0>>), dirty |-> FALSE]

\* The record of a call before its fields are filled in.
NoFilterCall ==
  [op |-> "new", input |-> <<>>, output |-> <<>>, twin_output |-> <<>>,
   fed_before |-> <<>>, prev_op |-> "new", before |-> FirNew(<<0>>)]

\* The last three samples of a stream: all that a filter of at most three
\* taps can still depend on.
Recent(stream) ==
  IF Len(stream) <= 3 THEN stream
  ELSE SubSeq(stream, Len(stream) - 2, Len(stream))

\* FirFilter::new(h) and FastFirFilter::new(h, block_size)
InitTdf ==
  /\ \E h \in CoefVectors, b \in FastBlockSizes :
       /\ tdf = FirNew(h)
       /\ fastf = FastNew(h, b)
  /\ fed = <<>>
  /\ twin = NoTwin
  /\ fcall = NoFilterCall
  /\ fcalls = 0

\* The samples go through the FirFilter, and through the twin when there is one.
TdfFeed(op, input) ==
  LET r == FirProcess(tdf, input)
      t == FirProcess(twin.filter, input)
  IN  /\ tdf' = r.filter
      /\ fed' = Recent(fed \o input)
      /\ twin' = IF twin.live THEN [twin EXCEPT !.filter = t.filter] ELSE twin
      /\ fcall' = [NoFilterCall EXCEPT !.op = op, !.input = input,
                                      !.output = r.out,
                                      !.twin_output = t.out,
                                      !.fed_before = fed,
                                      !.prev_op = fcall.op]
      /\ fcalls' = fcalls + 1
      /\ UNCHANGED fastf

\* FirFilter::process_sample
TdfProcessSample ==
  /\ fcalls < MaxFilterCalls
  /\ \E input \in BlocksUpTo(1) : TdfFeed("process_sample", input)
  /\ UNCHANGED notTdf

\* FirFilter::process_block
TdfProcessBlock ==
  /\ fcalls < MaxFilterCalls
  /\ \E input \in TdfBlocks : TdfFeed("process_block", input)
  /\ UNCHANGED notTdf

\* FirFilter::process_block_inplace
TdfProcessInplace ==
  /\ fcalls < MaxFilterCalls
  /\ \E input \in TdfBlocks : TdfFeed("process_block_inplace", input)
  /\ UNCHANGED notTdf

\* FirFilter::reset
TdfReset ==
  /\ fcalls < MaxFilterCalls
  /\ tdf' = FirReset(tdf)
  /\ fed' = <<>>
  /\ twin' = [live |-> TRUE, filter |-> FirNew(tdf.coefficients),
              dirty |-> (tdf.cursor # 0
                           /\ \E i \in DOMAIN tdf.state_buffer :
                                tdf.state_buffer[i] # 0)]
  /\ fcall' = [NoFilterCall EXCEPT !.op = "reset", !.before = tdf]
  /\ fcalls' = fcalls + 1
  /\ UNCHANGED fastf
  /\ UNCHANGED notTdf

\* FirFilter::update_coefficients
TdfUpdateCoefficients ==
  /\ fcalls < MaxFilterCalls
  /\ \E h \in CoefVectors :
       /\ tdf' = FirUpdateCoefficients(tdf, h)
       /\ fed' = IF Len(h) # tdf.length THEN <<>> ELSE fed
       /\ fcall' = [NoFilterCall EXCEPT !.op = "update_coefficients",
                                       !.input = h, !.before = tdf]
  /\ twin' = NoTwin
  /\ fcalls' = fcalls + 1
  /\ UNCHANGED fastf
  /\ UNCHANGED notTdf

\* FastFirFilter::process_block on a block of up to block_size + 1 samples.
FastProcessBlock ==
  /\ fcalls < MaxFilterCalls
  /\ \E input \in BlocksUpTo(fastf.block_size + 1) :
       LET r == FastProcess(fastf, input)
       IN  /\ fastf' = r.filter
           /\ fcall' = [NoFilterCall EXCEPT !.op = "fast_process_block",
                                           !.input = input, !.output = r.out]
  /\ fcalls' = fcalls + 1
  /\ UNCHANGED <<tdf, fed, twin>>
  /\ UNCHANGED notTdf

NextTdf ==
  \/ TdfProcessSample \/ TdfProcessBlock \/ TdfProcessInplace
  \/ TdfReset \/ TdfUpdateCoefficients \/ FastProcessBlock

\* The calls that feed samples to the FirFilter.
FeedOps == {"process_sample", "process_block", "process_block_inplace"}

\* C22: whatever mix of process_sample, process_block and
\* process_block_inplace feeds the stream, each output of the FirFilter is the
\* sum over k = 0..M-1 of h[k] * x[n-k], the samples before the first one
\* counting as 0, also once the cursor has wrapped around the delay line.
C22_CausalConvolution ==
  fcall.op \in FeedOps =>
    LET h == tdf.coefficients
        x == fcall.fed_before \o fcall.input
        base == Len(fcall.fed_before)
        X(i) == IF i >= 1 THEN x[i] ELSE 0
    IN  /\ Len(fcall.output) = Len(fcall.input)
        /\ \A j \in 1..Len(fcall.input) :
             fcall.output[j] =
               SumTo([k \in 0..(Len(h) - 1) |-> h[k + 1] * X(base + j - k)],
                     Len(h) - 1)

\* A three-tap filter that had already been fed three samples or more has
\* processed a block in place and put out a sample that is not zero.
C22_Witness ==
  /\ fcall.op = "process_block_inplace"
  /\ tdf.length = 3 /\ Len(fcall.fed_before) = 3
  /\ fcall.fed_before[1] # 0
  /\ \E j \in 1..Len(fcall.output) : fcall.output[j] # 0

\* C23 as stated: reset() zeroes every entry of the delay line and leaves the
\* write cursor, the coefficients and the length unchanged.
C23_ResetKeepsCursor ==
  fcall.op = "reset" =>
    /\ tdf.state_buffer = ZeroLine(tdf.length)
    /\ tdf.cursor = fcall.before.cursor
    /\ tdf.coefficients = fcall.before.coefficients
    /\ tdf.length = fcall.before.length

\* C23 as amended: reset() zeroes every entry of the delay line and sets the
\* write cursor to 0; the coefficients and the length are unchanged.
C23_ResetZeroesCursor ==
  fcall.op = "reset" =>
    /\ tdf.state_buffer = ZeroLine(tdf.length)
    /\ tdf.cursor = 0
    /\ tdf.coefficients = fcall.before.coefficients
    /\ tdf.length = fcall.before.length

\* reset() has been called on a filter whose cursor was not at 0 and whose
\* delay line held a sample that was not zero.
C23_Witness ==
  /\ fcall.op = "reset"
  /\ fcall.before.cursor # 0
  /\ \E i \in DOMAIN fcall.before.state_buffer : fcall.before.state_buffer[i] # 0

\* C24: after reset() the filter puts out, for whatever is fed to it, what a
\* filter newly built from the same coefficients puts out for the same samples.
C24_ResetIsFresh ==
  (fcall.op \in FeedOps /\ twin.live) => fcall.output = fcall.twin_output

\* A filter that was reset with samples in its delay line and its cursor away
\* from 0 has since been fed a block and has put out a sample that is not zero.
C24_Witness ==
  /\ fcall.op \in FeedOps /\ twin.live /\ twin.dirty
  /\ \E j \in 1..Len(fcall.output) : fcall.output[j] # 0

\* C25: update_coefficients with a vector of the same length keeps the delay
\* line and the cursor, so that the next output is computed from the samples
\* fed before with the new taps; with a vector of another length it installs
\* an all-zero delay line of the new length.  The delay line is always as
\* long as the coefficient vector.
C25_UpdateCoefficients ==
  /\ DOMAIN tdf.state_buffer = 0..(Len(tdf.coefficients) - 1)
  /\ tdf.length = Len(tdf.coefficients)
  /\ fcall.op = "update_coefficients" =>
       /\ tdf.coefficients = fcall.input
       /\ IF Len(fcall.input) = fcall.before.length
          THEN /\ tdf.state_buffer = fcall.before.state_buffer
               /\ tdf.cursor = fcall.before.cursor
          ELSE tdf.state_buffer = ZeroLine(Len(fcall.input))
  /\ (fcall.op \in FeedOps /\ fcall.prev_op = "update_coefficients"
        /\ Len(fcall.fed_before) >= 1) =>
       fcall.output[1] =
         SumTo([k \in 0..(tdf.length - 1) |->
                  tdf.coefficients[k + 1]
                    * (IF k = 0 THEN fcall.input[1]
                       ELSE IF Len(fcall.fed_before) - k + 1 >= 1
                            THEN fcall.fed_before[Len(fcall.fed_before) - k + 1]
                            ELSE 0)],
               tdf.length - 1)

\* update_coefficients has replaced the taps of a filter by others of the same
\* length while its delay line held a sample and its cursor was away from 0.
C25_Witness ==
  /\ fcall.op = "update_coefficients"
  /\ Len(fcall.input) = fcall.before.length
  /\ fcall.input # fcall.before.coefficients
  /\ fcall.before.cursor # 0
  /\ \E i \in DOMAIN fcall.before.state_buffer : fcall.before.state_buffer[i] # 0

\* C26: process_block of either filter returns a block as long as its input,
\* for the FastFirFilter also when the input is longer than block_size.
C26_SameLength ==
  fcall.op \in {"process_block", "fast_process_block"} =>
    Len(fcall.output) = Len(fcall.input)

\* C38: after any sequence of process_sample, process_block,
\* process_block_inplace, update_coefficients and reset calls on a FirFilter
\* built from a non-empty vector, 0 <= cursor < length and the delay line has
\* exactly length entries (as many as there are coefficients), so that every
\* delay-line index of process_sample is in range.
C38_CursorInRange ==
  /\ tdf.length >= 1
  /\ 0 <= tdf.cursor /\ tdf.cursor < tdf.length
  /\ DOMAIN tdf.state_buffer = 0..(tdf.length - 1)
  /\ Len(tdf.coefficients) = tdf.length
  /\ \A k \in 0..(tdf.length - 1) :
       ((tdf.cursor + tdf.length - k) % tdf.length) \in DOMAIN tdf.state_buffer

\* A three-tap filter whose cursor had moved off 0 has been given a shorter
\* coefficient vector.
C38_Witness ==
  /\ fcall.op = "update_coefficients"
  /\ fcall.before.length = 3 /\ fcall.before.cursor = 2
  /\ tdf.length < 3

(***************************************************************************)
(* Part 8.  The processing loop and the control flags                      *)
(* (audio/processor.rs).  The loop body is followed step by step: the      *)
(* running test, the read, the bypass test, the filter chain, the          *)
(* analysis, the publish, the monitoring test and the push, each guarded   *)
(* section being one step under its mutex.  start, stop, set_bypass,       *)
(* enable_monitoring, disable_monitoring, design_filter and                *)
(* update_fft_config run on one control thread, interleaved with the loop  *)
(* at every step.                                                          *)
(***************************************************************************)

\* Number of blocks the capture side delivers in a run.
MaxLoopBlocks == 3

\* Number of control calls in a run.
MaxLoopCalls == 4

\* fft_size values passed to update_fft_config: padded_signal.len() and one
\* above it.
LoopFftSizes == {8192, 16384}

\* A flag as the thread saw it; "-" stands for not yet looked at.
Seen(flag) == IF flag THEN "set" ELSE "clear"

\* Samples found in the input channel by a read that returns a block: fewer
\* than temp_buffer holds, or more.
LoopAvail == {64, 4096}

\* The locals of a processing thread at the given place, holding no block.
AtPlace(place) ==
  [pc |-> place, block |-> 0, n |-> 0, spectrum_len |-> 0, fft_size |-> 0]

\* The locals of a processing thread that holds no block.
NoBlock == AtPlace("none")

\* Option<ProcessingResults>::None in the results slot.
NoResults == [block |-> 0, waveform_len |-> 0, spectrum_len |-> 0, fft_size |-> 0]

\* What is recorded of a block when it is read.
BlockRead(after_disable, bypass_set) ==
  [bypass |-> "-", filtered |-> FALSE, analysed |-> FALSE, published |-> FALSE,
   monitoring |-> "-", producer |-> "-", pushed |-> FALSE,
   published_at_push |-> FALSE, stopped |-> FALSE,
   quiet |-> after_disable, expect |-> bypass_set]

\* The thread is between the read of a block and its next running test.
InHand ==
  /\ worker.block # 0
  /\ worker.pc \notin {"check", "exited", "panicked"} \cup RecursionOutcomes

\* The process has not been aborted by a stack overflow.
LoopAlive == worker.pc # "aborted"

\* AudioProcessor::new
InitLoop ==
  /\ shared = [running |-> FALSE, bypass |-> FALSE, monitoring |-> FALSE,
               output_producer |-> FALSE, audio_output |-> FALSE,
               fft_size |-> DefaultFftSize, user_filter |-> NoFilter,
               process_thread |-> FALSE, analyzer_poisoned |-> FALSE,
               results |-> NoResults]
  /\ worker = NoBlock
  /\ pending = 0
  /\ blocks = <<>>
  /\ caller = [pc |-> "idle", calls |-> 0]
  /\ hist = [disabled |-> FALSE, bypass_set |-> "-"]

(* -------------------------- the processing thread ---------------------- *)

\* while running.load(SeqCst): the locals of the last iteration are gone when
\* the loop goes on, and the thread ends when the flag is clear.
LoopCheck ==
  /\ worker.pc = "check"
  /\ worker' = IF shared.running THEN AtPlace("read")
               ELSE [worker EXCEPT !.pc = "exited"]
  /\ UNCHANGED <<shared, pending, blocks, caller, hist>>
  /\ UNCHANGED notLoop

\* consumer.read(&mut temp_buffer) returns at most temp_buffer.len() samples;
\* n > 0 starts a block of n.min(MAX_WAVEFORM_SIZE) samples, n = 0 sleeps and
\* goes back to the running test.
LoopRead ==
  /\ worker.pc = "read"
  /\ IF pending > 0
     THEN /\ pending' = pending - 1
          /\ blocks' = Append(blocks, BlockRead(hist.disabled, hist.bypass_set))
          /\ \E found \in LoopAvail :
               worker' = [AtPlace("bypass") EXCEPT
                            !.block = Len(blocks) + 1,
                            !.n = Min(Min(found, TempBufferLen), MAX_WAVEFORM_SIZE)]
     ELSE /\ worker' = AtPlace("check")
          /\ UNCHANGED <<pending, blocks>>
  /\ UNCHANGED <<shared, caller, hist>>
  /\ UNCHANGED notLoop

\* A bypass test that never sees the flag set.
LoopBypassNever ==
  /\ worker.pc = "bypass"
  /\ blocks' = [blocks EXCEPT ![worker.block].bypass = "clear"]
  /\ worker' = [worker EXCEPT !.pc = "chain"]
  /\ UNCHANGED <<shared, pending, caller, hist>>
  /\ UNCHANGED notLoop

\* if bypass.load(SeqCst) { n } else { filter chain }
LoopBypass ==
  /\ worker.pc = "bypass"
  /\ blocks' = [blocks EXCEPT ![worker.block].bypass = Seen(shared.bypass)]
  /\ worker' = [worker EXCEPT !.pc = IF shared.bypass THEN "analyze" ELSE "chain"]
  /\ UNCHANGED <<shared, pending, caller, hist>>
  /\ UNCHANGED notLoop

\* The filter-chain pass over the whole block, under the chain mutex; the
\* in-place call on a FastFirFilter calls itself and does not come back.
LoopChain ==
  /\ worker.pc = "chain"
  /\ IF shared.user_filter.kind = "fastfir"
     THEN /\ \E o \in RecursionOutcomes : worker' = [worker EXCEPT !.pc = o]
          /\ UNCHANGED blocks
     ELSE /\ blocks' = [blocks EXCEPT ![worker.block].filtered = TRUE]
          /\ worker' = [worker EXCEPT !.pc = "analyze"]
  /\ UNCHANGED <<shared, pending, caller, hist>>
  /\ UNCHANGED notLoop

\* let spectrum_len = if let Ok(mut analyzer) = analyzer.lock() { .. } else
\* { 0 }: lock() is Err once a thread has panicked under the analyzer mutex,
\* and the analysis is then skipped.  Otherwise padded_signal[..fft_size], on
\* a vector of 8192 entries, panics for a larger fft_size, under the mutex;
\* for the others spec_len = mag.len().min(MAX_SPECTRUM_SIZE).  fft_size
\* records the configuration in force at this step.
LoopAnalyze ==
  /\ worker.pc = "analyze"
  /\ IF shared.analyzer_poisoned
     THEN /\ worker' = [worker EXCEPT !.pc = "publish", !.spectrum_len = 0,
                                      !.fft_size = shared.fft_size]
          /\ UNCHANGED <<shared, blocks>>
     ELSE IF shared.fft_size > PaddedSignalLen
     THEN /\ worker' = [worker EXCEPT !.pc = "panicked"]
          /\ shared' = [shared EXCEPT !.analyzer_poisoned = TRUE]
          /\ UNCHANGED blocks
     ELSE /\ blocks' = [blocks EXCEPT ![worker.block].analysed = TRUE]
          /\ worker' = [worker EXCEPT !.pc = "publish",
                                      !.spectrum_len = SpectrumLen(shared.fft_size),
                                      !.fft_size = shared.fft_size]
          /\ UNCHANGED shared
  /\ UNCHANGED <<pending, caller, hist>>
  /\ UNCHANGED notLoop

\* result_buffer.waveform_len = n; result_buffer.spectrum_len = spectrum_len;
\* *results_guard = Some(result_buffer.clone())
LoopPublish ==
  /\ worker.pc = "publish"
  /\ blocks' = [blocks EXCEPT ![worker.block].published = TRUE]
  /\ shared' = [shared EXCEPT !.results =
                  [block |-> worker.block, waveform_len |-> worker.n,
                   spectrum_len |-> worker.spectrum_len,
                   fft_size |-> worker.fft_size]]
  /\ worker' = [worker EXCEPT !.pc = "monitor"]
  /\ UNCHANGED <<pending, caller, hist>>
  /\ UNCHANGED notLoop

\* A monitoring test that goes on to the producer whatever the flag says.
LoopMonitorAlways ==
  /\ worker.pc = "monitor"
  /\ blocks' = [blocks EXCEPT ![worker.block].monitoring = Seen(shared.monitoring)]
  /\ worker' = [worker EXCEPT !.pc = "push"]
  /\ UNCHANGED <<shared, pending, caller, hist>>
  /\ UNCHANGED notLoop

\* if monitoring.load(SeqCst)
LoopMonitor ==
  /\ worker.pc = "monitor"
  /\ blocks' = [blocks EXCEPT ![worker.block].monitoring = Seen(shared.monitoring)]
  /\ worker' = [worker EXCEPT !.pc = IF shared.monitoring THEN "push"
                                     ELSE "check"]
  /\ UNCHANGED <<shared, pending, caller, hist>>
  /\ UNCHANGED notLoop

\* Under the producer mutex: if let Some(producer) = producer_guard.as_mut()
\* { producer.write(&filtered_buffer[..filtered_len]) }
LoopPush ==
  /\ worker.pc = "push"
  /\ blocks' = [blocks EXCEPT
                  ![worker.block].producer = Seen(shared.output_producer),
                  ![worker.block].pushed = shared.output_producer,
                  ![worker.block].published_at_push = blocks[worker.block].published]
  /\ worker' = [worker EXCEPT !.pc = "check"]
  /\ UNCHANGED <<shared, pending, caller, hist>>
  /\ UNCHANGED notLoop

\* The capture callback writes a block to the input channel.
LoopCapture ==
  /\ shared.process_thread
  /\ Len(blocks) + pending < MaxLoopBlocks
  /\ pending' = pending + 1
  /\ UNCHANGED <<shared, worker, blocks, caller, hist>>
  /\ UNCHANGED notLoop

(* ---------------------------- the control thread ----------------------- *)

\* start: the input device may fail (early return); otherwise running is set
\* and the thread is spawned on a new, empty input channel.  The runs
\* explored call start on a processor that holds no thread handle.
LoopStart ==
  /\ caller.pc = "idle" /\ caller.calls < MaxLoopCalls
  /\ ~shared.process_thread
  /\ \E ok \in BOOLEAN :
       IF ok
       THEN /\ shared' = [shared EXCEPT !.running = TRUE,
                                        !.process_thread = TRUE]
            /\ worker' = AtPlace("check")
            /\ pending' = 0
       ELSE UNCHANGED <<shared, worker, pending>>
  /\ caller' = [caller EXCEPT !.calls = @ + 1]
  /\ UNCHANGED <<blocks, hist>>
  /\ UNCHANGED notLoop

\* stop: running.store(false)
LoopStopStore ==
  /\ caller.pc = "idle" /\ caller.calls < MaxLoopCalls
  /\ shared' = [shared EXCEPT !.running = FALSE]
  /\ blocks' = IF InHand THEN [blocks EXCEPT ![worker.block].stopped = TRUE]
               ELSE blocks
  /\ caller' = [pc |-> "stop_join", calls |-> caller.calls + 1]
  /\ UNCHANGED <<worker, pending, hist>>
  /\ UNCHANGED notLoop

\* stop: handle.join() returns once the thread has ended (Err when it
\* panicked); the input is paused and released.
LoopStopJoin ==
  /\ caller.pc = "stop_join"
  /\ shared.process_thread => worker.pc \in {"exited", "panicked"}
  /\ shared' = [shared EXCEPT !.process_thread = FALSE]
  /\ caller' = [caller EXCEPT !.pc = "idle"]
  /\ UNCHANGED <<worker, pending, blocks, hist>>
  /\ UNCHANGED notLoop

\* set_bypass: bypass.store(b)
LoopSetBypass ==
  /\ caller.pc = "idle" /\ caller.calls < MaxLoopCalls
  /\ \E b \in BOOLEAN :
       /\ shared' = [shared EXCEPT !.bypass = b]
       /\ hist' = [hist EXCEPT !.bypass_set = Seen(b)]
  /\ blocks' = IF InHand THEN [blocks EXCEPT ![worker.block].expect = "-"]
               ELSE blocks
  /\ caller' = [caller EXCEPT !.calls = @ + 1]
  /\ UNCHANGED <<worker, pending>>
  /\ UNCHANGED notLoop

\* enable_monitoring with an output already held: the flag alone is set.
\* Otherwise the new producer is stored under the producer mutex first.
LoopEnableStore ==
  /\ caller.pc = "idle" /\ caller.calls < MaxLoopCalls
  /\ IF shared.audio_output
     THEN /\ shared' = [shared EXCEPT !.monitoring = TRUE]
          /\ caller' = [caller EXCEPT !.calls = @ + 1]
     ELSE /\ shared' = [shared EXCEPT !.output_producer = TRUE]
          /\ caller' = [pc |-> "enable_open", calls |-> caller.calls + 1]
  /\ hist' = [hist EXCEPT !.disabled = FALSE]
  /\ blocks' = IF InHand THEN [blocks EXCEPT ![worker.block].quiet = FALSE]
               ELSE blocks
  /\ UNCHANGED <<worker, pending>>
  /\ UNCHANGED notLoop

\* enable_monitoring: AudioOutput::from_default_device and output.start may
\* fail (early return); otherwise the output is kept and monitoring is set.
LoopEnableOpen ==
  /\ caller.pc = "enable_open"
  /\ \E ok \in BOOLEAN :
       shared' = IF ok THEN [shared EXCEPT !.audio_output = TRUE,
                                           !.monitoring = TRUE]
                 ELSE shared
  /\ caller' = [caller EXCEPT !.pc = "idle"]
  /\ UNCHANGED <<worker, pending, blocks, hist>>
  /\ UNCHANGED notLoop

\* disable_monitoring: monitoring.store(false); the output is paused and dropped.
LoopDisableStore ==
  /\ caller.pc = "idle" /\ caller.calls < MaxLoopCalls
  /\ shared' = [shared EXCEPT !.monitoring = FALSE, !.audio_output = FALSE]
  /\ caller' = [pc |-> "disable_clear", calls |-> caller.calls + 1]
  /\ UNCHANGED <<worker, pending, blocks, hist>>
  /\ UNCHANGED notLoop

\* disable_monitoring: *producer_guard = None under the producer mutex, and
\* the call returns.
LoopDisableClear ==
  /\ caller.pc = "disable_clear"
  /\ shared' = [shared EXCEPT !.output_producer = FALSE]
  /\ caller' = [caller EXCEPT !.pc = "idle"]
  /\ hist' = [hist EXCEPT !.disabled = TRUE]
  /\ UNCHANGED <<worker, pending, blocks>>
  /\ UNCHANGED notLoop

\* update_fft_config: the new fft_size is stored under the analyzer mutex;
\* with the mutex poisoned the call returns without storing it.
LoopFftConfig ==
  /\ caller.pc = "idle" /\ caller.calls < MaxLoopCalls
  /\ \E size \in LoopFftSizes :
       /\ size # shared.fft_size
       /\ shared' = IF shared.analyzer_poisoned THEN shared
                    ELSE [shared EXCEPT !.fft_size = size]
  /\ caller' = [caller EXCEPT !.calls = @ + 1]
  /\ UNCHANGED <<worker, pending, blocks, hist>>
  /\ UNCHANGED notLoop

\* design_filter: a FastFirFilter for more than 128 coefficients, a FirFilter
\* otherwise, stored in slot 1 under the chain mutex, which a thread inside
\* the filter call that does not come back never releases.
LoopDesignFilter ==
  /\ caller.pc = "idle" /\ caller.calls < MaxLoopCalls
  /\ worker.pc # "recursing"
  /\ \E len \in DesignLens :
       /\ NewFilter(len) # shared.user_filter
       /\ shared' = [shared EXCEPT !.user_filter = NewFilter(len)]
  /\ caller' = [caller EXCEPT !.calls = @ + 1]
  /\ UNCHANGED <<worker, pending, blocks, hist>>
  /\ UNCHANGED notLoop

LoopStep ==
  \/ LoopCheck \/ LoopRead \/ LoopBypass \/ LoopChain \/ LoopAnalyze
  \/ LoopPublish \/ LoopMonitor \/ LoopPush \/ LoopCapture
  \/ LoopStart \/ LoopStopStore \/ LoopStopJoin \/ LoopSetBypass
  \/ LoopEnableStore \/ LoopEnableOpen \/ LoopDisableStore
  \/ LoopDisableClear \/ LoopFftConfig \/ LoopDesignFilter

NextLoop == LoopAlive /\ LoopStep

\* The steps of the processing thread.
LoopThreadStep ==
  \/ LoopCheck \/ LoopRead \/ LoopBypass \/ LoopChain \/ LoopAnalyze
  \/ LoopPublish \/ LoopMonitor \/ LoopPush

\* Fair scheduling: a thread that can take a step takes one in the end, the
\* processing thread in its loop and the caller inside stop().
LoopFairness ==
  /\ WF_vars(LoopAlive /\ LoopThreadStep)
  /\ WF_vars(LoopAlive /\ LoopStopJoin)

(* ---------------------- claims on the processing loop ------------------ *)

\* C28: no mid-block cancellation: whenever the processing thread tests the
\* running flag, or has ended through that test, the block it last read has
\* been filtered (unless bypassed), analysed and published, and written to
\* the output when monitoring was set and a producer installed.
C28_NoMidBlockCancel ==
  (worker.pc \in {"check", "exited"} /\ worker.block # 0)
    => LET b == blocks[worker.block]
       IN  /\ b.filtered = (b.bypass = "clear")
           /\ b.analysed /\ b.published
           /\ (b.monitoring = "set" /\ b.producer = "set") => b.pushed

\* C29: a block is written to the output channel only when the monitoring
\* flag was set at the test made for that block and a producer was installed,
\* and only after its snapshot was published; a block read after
\* disable_monitoring() returned, with no enable_monitoring() call since, is
\* never written.
C29_PushOnlyWhenMonitoring ==
  \A i \in 1..Len(blocks) :
    blocks[i].pushed =>
      /\ blocks[i].monitoring = "set"
      /\ blocks[i].producer = "set"
      /\ blocks[i].published_at_push
      /\ ~blocks[i].quiet

\* One block was written to the output; a later one, read after
\* disable_monitoring() had returned, was published and not written.
C29_Witness ==
  \E i, j \in 1..Len(blocks) :
    /\ i < j
    /\ blocks[i].pushed
    /\ blocks[j].quiet /\ blocks[j].published /\ ~blocks[j].pushed
    /\ blocks[j].monitoring = "clear"

\* C30: the bypass flag is read once for each block, which is then filtered
\* as a whole or bypassed as a whole; a block read after set_bypass(b)
\* returned, with no set_bypass since, is handled with bypass = b.
C30_BypassObserved ==
  \A i \in 1..Len(blocks) :
    /\ blocks[i].filtered => blocks[i].bypass = "clear"
    /\ (blocks[i].bypass = "clear" /\ blocks[i].published) => blocks[i].filtered
    /\ (blocks[i].bypass # "-" /\ blocks[i].expect # "-")
         => blocks[i].bypass = blocks[i].expect

\* set_bypass(true) returned while a block was in hand past its bypass test:
\* that block was filtered, the next one was bypassed.
C30_Witness ==
  \E i \in 1..Len(blocks) :
    /\ i + 1 <= Len(blocks)
    /\ blocks[i].bypass = "clear" /\ blocks[i].filtered /\ blocks[i].expect = "-"
    /\ blocks[i + 1].expect = "set" /\ blocks[i + 1].bypass = "set"
    /\ blocks[i + 1].published /\ ~blocks[i + 1].filtered

\* C36: stop() always returns: once it has cleared the running flag, the
\* processing thread ends its iteration and exits, and the join in stop()
\* comes back.
C36_StopReturns == (caller.pc = "stop_join") ~> (caller.pc = "idle")

\* C32: every published snapshot has valid lengths: 1 <= waveform_len <=
\* 2048 <= MAX_WAVEFORM_SIZE, and spectrum_len = fft_size/2 + 1 for the
\* analyzer configuration in force when the block was analysed, never more
\* than MAX_SPECTRUM_SIZE.
C32_SnapshotLengths ==
  shared.results # NoResults =>
    /\ 1 <= shared.results.waveform_len
    /\ shared.results.waveform_len <= TempBufferLen
    /\ TempBufferLen <= MAX_WAVEFORM_SIZE
    /\ shared.results.spectrum_len = shared.results.fft_size \div 2 + 1
    /\ shared.results.spectrum_len <= MAX_SPECTRUM_SIZE

(***************************************************************************)
(* Part 9.  The coefficient values of the FIR designers                    *)
(* (filters/design.rs, filters/windows.rs).                                *)
(*                                                                         *)
(* Frequencies are multiples of pi/6 and transition widths multiples of    *)
(* pi/3, and the designs explored are those whose window angles            *)
(* 2*pi*n/(M-1) are multiples of pi/6 as well.  Every sine and cosine is   *)
(* then of the form (a + b*sqrt(3))/2 with a, b integers, and every        *)
(* coefficient is computed exactly as a number (a + b*sqrt(3))/d, divided  *)
(* by pi for the taps off the centre.                                      *)
(***************************************************************************)

\* delta_omega = pi * dn / CoefDen in this part.
CoefDen == 3

\* Cutoff and passband-edge frequencies explored, in sixths of pi.
CoefCutoffs == 1..5

\* The number (a + b*sqrt(3)) / d, divided by pi when p = 1.
Surd(a, b, d, p) == [a |-> a, b |-> b, d |-> d, p |-> p]

\* x == y on such numbers (1 and sqrt(3) are independent over the rationals).
SurdEq(x, y) ==
  /\ x.a * y.d = y.a * x.d
  /\ x.b * y.d = y.b * x.d
  /\ (x.p = y.p \/ (x.a = 0 /\ x.b = 0 /\ y.a = 0 /\ y.b = 0))

\* x * y
SurdMul(x, y) ==
  Surd(x.a * y.a + 3 * x.b * y.b, x.a * y.b + x.b * y.a, x.d * y.d, x.p + y.p)

\* f64::sin at k * pi / 6, as a pair <<a, b>> over 2.
Sin6(k) ==
  LET r == k % 12
  IN  CASE r = 0 -> <<0, 0>>
        [] r = 1 -> <<1, 0>>
        [] r = 2 -> <<0, 1>>
        [] r = 3 -> <<2, 0>>
        [] r = 4 -> <<0, 1>>
        [] r = 5 -> <<1, 0>>
        [] r = 6 -> <<0, 0>>
        [] r = 7 -> <<0 - 1, 0>>
        [] r = 8 -> <<0, 0 - 1>>
        [] r = 9 -> <<0 - 2, 0>>
        [] r = 10 -> <<0, 0 - 1>>
        [] OTHER -> <<0 - 1, 0>>

\* f64::cos at k * pi / 6, as a pair <<a, b>> over 2.
Cos6(k) == Sin6(k + 3)

\* The angle 2 * pi * n / (m - 1) in sixths of pi.
WindowAngle(n, length) == (12 * n) \div (length - 1)

\* generate_window: w[n] for n = 0 .. length-1 (at index n + 1).
GenerateWindow(window_type, length) ==
  [i \in 1..length |->
     LET c1 == Cos6(WindowAngle(i - 1, length))
         c2 == Cos6(2 * WindowAngle(i - 1, length))
     IN  CASE window_type = "Hann" -> Surd(2 - c1[1], 0 - c1[2], 4, 0)
           [] window_type = "Hamming" ->
                Surd(108 - 46 * c1[1], 0 - 46 * c1[2], 200, 0)
           [] window_type = "Blackman" ->
                Surd(84 - 50 * c1[1] + 8 * c2[1],
                     0 - 50 * c1[2] + 8 * c2[2], 200, 0)
           [] OTHER -> Surd(1, 0, 1, 0)]

\* An index left as it is, counted from the first tap.
UnshiftedIndex(n, m) == n

\* n_shifted = n as f64 - center, center = (m - 1) / 2, for odd m.
ShiftedIndex(n, m) == n - (m - 1) \div 2

\* sin(wc_rad * n_shifted) / (PI * n_shifted), wc_rad = wc * pi / 6
SincTerm(wc, ns) == Surd(Sin6(wc * ns)[1], Sin6(wc * ns)[2], 2 * ns, 1)

\* h_ideal of design_lowpass_fir
IdealLowpass(wc, ns) ==
  IF ns = 0 THEN Surd(wc, 0, 6, 0) ELSE SincTerm(wc, ns)

\* h_ideal of design_highpass_fir
IdealHighpass(wc, ns) ==
  IF ns = 0 THEN Surd(6 - wc, 0, 6, 0)
  ELSE Surd(0 - SincTerm(wc, ns).a, 0 - SincTerm(wc, ns).b, 2 * ns, 1)

\* h_ideal of design_bandpass_fir
IdealBandpass(wc1, wc2, ns) ==
  IF ns = 0 THEN Surd(wc2 - wc1, 0, 6, 0)
  ELSE Surd(SincTerm(wc2, ns).a - SincTerm(wc1, ns).a,
            SincTerm(wc2, ns).b - SincTerm(wc1, ns).b, 2 * ns, 1)

\* FilterSpec::bandpass and cutoff_frequencies: the midpoints of the
\* transition bands, in sixths of pi.
CutoffFrequencies(p1, p2, dn) ==
  LET s1 == 2 * p1 - (12 * dn) \div CoefDen
      s2 == 2 * p2 + (12 * dn) \div CoefDen
  IN  <<(s1 + 2 * p1) \div 4, (2 * p2 + s2) \div 4>>

\* design_lowpass_fir
DesignLowpassFir(cutoff, dn, window_type) ==
  LET m == CalculateFilterLength(window_type, dn, CoefDen)
      window == GenerateWindow(window_type, m)
  IN  [i \in 1..m |->
         SurdMul(IdealLowpass(cutoff, ShiftedIndex(i - 1, m)), window[i])]

\* design_highpass_fir
DesignHighpassFir(cutoff, dn, window_type) ==
  LET m == CalculateFilterLength(window_type, dn, CoefDen)
      window == GenerateWindow(window_type, m)
  IN  [i \in 1..m |->
         SurdMul(IdealHighpass(cutoff, ShiftedIndex(i - 1, m)), window[i])]

\* design_bandpass_fir
DesignBandpassFir(p1, p2, dn, window_type) ==
  LET m == CalculateFilterLength(window_type, dn, CoefDen)
      wc == CutoffFrequencies(p1, p2, dn)
      window == GenerateWindow(window_type, m)
  IN  [i \in 1..m |->
         SurdMul(IdealBandpass(wc[1], wc[2], ShiftedIndex(i - 1, m)),
                 window[i])]

\* <<window, dn>> explored: a transition width of pi/3, 2*pi/3 or pi with a
\* window whose angles fall on multiples of pi/6.
GridDesigns ==
  {wd \in WindowTypes \X (1..CoefDen) :
     \/ wd[1] = "Rectangular"
     \/ 12 % (CalculateFilterLength(wd[1], wd[2], CoefDen) - 1) = 0}

\* No design made yet.
InitCoef ==
  /\ dreq = [designer |-> "none", window_type |-> "none", dn |-> 0,
             c1 |-> 0, c2 |-> 0]
  /\ dcoef = <<>>

\* design_lowpass_fir(cutoff, delta_omega, window_type)
DesignLowpassCall ==
  /\ \E wd \in GridDesigns, c \in CoefCutoffs :
       /\ dreq' = [designer |-> "lowpass", window_type |-> wd[1],
                   dn |-> wd[2], c1 |-> c, c2 |-> c]
       /\ dcoef' = DesignLowpassFir(c, wd[2], wd[1])
  /\ UNCHANGED notCoef

\* design_highpass_fir(cutoff, delta_omega, window_type)
DesignHighpassCall ==
  /\ \E wd \in GridDesigns, c \in CoefCutoffs :
       /\ dreq' = [designer |-> "highpass", window_type |-> wd[1],
                   dn |-> wd[2], c1 |-> c, c2 |-> c]
       /\ dcoef' = DesignHighpassFir(c, wd[2], wd[1])
  /\ UNCHANGED notCoef

\* design_bandpass_fir(&FilterSpec::bandpass(p1, p2, delta_omega, window_type))
\* with the lower passband edge below the upper one.
DesignBandpassCall ==
  /\ \E wd \in GridDesigns, p1 \in CoefCutoffs, p2 \in CoefCutoffs :
       /\ p1 < p2
       /\ dreq' = [designer |-> "bandpass", window_type |-> wd[1],
                   dn |-> wd[2], c1 |-> p1, c2 |-> p2]
       /\ dcoef' = DesignBandpassFir(p1, p2, wd[2], wd[1])
  /\ UNCHANGED notCoef

NextCoef == DesignLowpassCall \/ DesignHighpassCall \/ DesignBandpassCall

\* C31: the coefficient sequences of the lowpass, highpass and bandpass
\* designers have odd length M and are symmetric about the centre tap,
\* h[i] = h[M-1-i] for every i.
C31_SymmetricTaps ==
  dreq.designer # "none" =>
    /\ Len(dcoef) % 2 = 1
    /\ \A i \in 1..Len(dcoef) : SurdEq(dcoef[i], dcoef[Len(dcoef) + 1 - i])

\* A Blackman bandpass of 13 taps whose two taps next to the centre are not
\* zero and differ from the tap before them.
C31_Witness ==
  /\ dreq.designer = "bandpass" /\ dreq.window_type = "Blackman"
  /\ Len(dcoef) = 13
  /\ dcoef[6].a # 0
  /\ ~SurdEq(dcoef[6], dcoef[5])
  /\ \E i \in 1..6 : dcoef[i].b # 0

(***************************************************************************)
(* Part 10.  The samples of a block from the input channel to the          *)
(* snapshot (audio/processor.rs).  Samples are numbered by their position  *)
(* in the captured stream, a slice is the number of its first sample and   *)
(* its length, and every field of a snapshot carries the number of the     *)
(* block it was written for.  The store of the cloned result_buffer into   *)
(* the slot is taken in two steps under the results mutex, the waveform    *)
(* fields and then the spectrum fields; get_results runs on a thread of    *)
(* its own.                                                                *)
(***************************************************************************)

\* Number of capture callbacks in a run.
MaxSnapCaptures == 3

\* Number of get_results calls in a run.
MaxSnapPolls == 2

\* Lengths of the slices the capture side writes to the input channel.
SnapChunks == {64, 2048}

\* A slice of the stream: samples from .. from + len - 1, read for block.
Slice(block, from, len) == [block |-> block, from |-> from, len |-> len]

\* ProcessingResults::default(): zeroed arrays, lengths 0, written for no block.
DefaultResults ==
  [input_waveform |-> Slice(0, 0, 0), filtered_waveform |-> Slice(0, 0, 0),
   spectrum |-> 0,
   waveform_len |-> [block |-> 0, len |-> 0],
   spectrum_len |-> [block |-> 0, len |-> 0]]

\* Option<ProcessingResults>::None
NoResult == [some |-> FALSE, value |-> DefaultResults]

\* A read that hands over everything the channel holds, however long.
ReadCountUnbounded(available) == available

\* consumer.read(&mut temp_buffer): as many samples as the channel holds, at
\* most temp_buffer.len().
ReadCount(available) == Min(available, TempBufferLen)

\* let n = n.min(MAX_WAVEFORM_SIZE)
ClampLen(n) == Min(n, MAX_WAVEFORM_SIZE)

\* A mutex whose lock() returns while another thread holds the guard.
GuardAlwaysFree(holder) == TRUE

\* Mutex::lock on the results mutex returns only while no guard is out.
GuardFree(holder) == holder = "free"

\* The thread as start() spawns it, on an empty channel and a default
\* result_buffer; ok tells whether analyzer.lock() is Ok for it.
SnapSpawned(ok) ==
  /\ feed = [written |-> 0, taken |-> 0, captures |-> 0]
  /\ snapper = [pc |-> "read", block |-> 0, from |-> 0, n |-> 0,
                bypass |-> FALSE, spectrum_len |-> 0]
  /\ result_buffer = DefaultResults
  /\ results_slot = NoResult
  /\ results_mutex = "free"
  /\ poller = [pc |-> "idle", polls |-> 0, contended |-> FALSE, got |-> NoResult]
  /\ snap_flags = [bypass |-> FALSE, analyzer_ok |-> ok]
  /\ streamLog = [reads |-> <<>>, waves |-> <<>>, skipped |-> {}, chained |-> <<>>]

\* The thread started by start(): analyzer.lock() is Ok or, on a processor
\* whose analyzer mutex was poisoned by an earlier thread, Err.
InitSnap == \E ok \in BOOLEAN : SnapSpawned(ok)

\* The capture callback writes a slice to the input channel.
SnapCapture ==
  /\ feed.captures < MaxSnapCaptures
  /\ \E len \in SnapChunks :
       feed' = [feed EXCEPT !.written = @ + len, !.captures = @ + 1]
  /\ UNCHANGED <<snapper, result_buffer, results_slot, results_mutex, poller,
                 snap_flags, streamLog>>
  /\ UNCHANGED notSnap

\* let n = consumer.read(&mut temp_buffer); if n > 0 { let n =
\* n.min(MAX_WAVEFORM_SIZE); waveform_buffer[..n] and filtered_buffer[..n]
\* are copied from temp_buffer[..n] }.  A read of nothing sleeps and reads
\* again.
SnapRead ==
  /\ snapper.pc = "read"
  /\ LET got == ReadCount(feed.written - feed.taken)
         n == ClampLen(got)
         k == snapper.block + 1
     IN  /\ got > 0
         /\ feed' = [feed EXCEPT !.taken = @ + got]
         /\ snapper' = [snapper EXCEPT !.pc = "bypass", !.block = k,
                                       !.from = feed.taken + 1, !.n = n]
         /\ streamLog' = [streamLog EXCEPT
                            !.reads = Append(@, Slice(k, feed.taken + 1, got)),
                            !.waves = Append(@, Slice(k, feed.taken + 1, n))]
  /\ UNCHANGED <<result_buffer, results_slot, results_mutex, poller, snap_flags>>
  /\ UNCHANGED notSnap

\* if bypass.load(SeqCst) { n } else { the filter chain }
SnapBypass ==
  /\ snapper.pc = "bypass"
  /\ snapper' = [snapper EXCEPT !.pc = IF snap_flags.bypass THEN "analyze"
                                       ELSE "chain",
                                !.bypass = snap_flags.bypass]
  /\ streamLog' = IF snap_flags.bypass
                  THEN [streamLog EXCEPT !.skipped = @ \cup {snapper.block}]
                  ELSE streamLog
  /\ UNCHANGED <<feed, result_buffer, results_slot, results_mutex, poller,
                 snap_flags>>
  /\ UNCHANGED notSnap

\* filter.process_block_inplace(&mut filtered_buffer[..n]) for each slot
SnapChain ==
  /\ snapper.pc = "chain"
  /\ streamLog' = [streamLog EXCEPT
                     !.chained = Append(@, Slice(snapper.block, snapper.from,
                                                 snapper.n))]
  /\ snapper' = [snapper EXCEPT !.pc = "analyze"]
  /\ UNCHANGED <<feed, result_buffer, results_slot, results_mutex, poller,
                 snap_flags>>
  /\ UNCHANGED notSnap

\* let spectrum_len = if let Ok(mut analyzer) = analyzer.lock() { the two
\* spectrum arrays of result_buffer are written; spec_len } else { 0 }
SnapAnalyze ==
  /\ snapper.pc = "analyze"
  /\ IF snap_flags.analyzer_ok
     THEN /\ result_buffer' = [result_buffer EXCEPT !.spectrum = snapper.block]
          /\ snapper' = [snapper EXCEPT !.pc = "assemble",
                                        !.spectrum_len = SpectrumLen(DefaultFftSize)]
     ELSE /\ snapper' = [snapper EXCEPT !.pc = "assemble", !.spectrum_len = 0]
          /\ UNCHANGED result_buffer
  /\ UNCHANGED <<feed, results_slot, results_mutex, poller, snap_flags,
                 streamLog>>
  /\ UNCHANGED notSnap

\* The two waveform copies into result_buffer, waveform_len and spectrum_len.
SnapAssemble ==
  /\ snapper.pc = "assemble"
  /\ result_buffer' =
       [result_buffer EXCEPT
          !.input_waveform = Slice(snapper.block, snapper.from, snapper.n),
          !.filtered_waveform = Slice(snapper.block, snapper.from, snapper.n),
          !.waveform_len = [block |-> snapper.block, len |-> snapper.n],
          !.spectrum_len = [block |-> snapper.block, len |-> snapper.spectrum_len]]
  /\ snapper' = [snapper EXCEPT !.pc = "lock"]
  /\ UNCHANGED <<feed, results_slot, results_mutex, poller, snap_flags,
                 streamLog>>
  /\ UNCHANGED notSnap

\* if let Ok(mut results_guard) = results.lock()
SnapLock ==
  /\ snapper.pc = "lock"
  /\ GuardFree(results_mutex)
  /\ results_mutex' = "proc"
  /\ snapper' = [snapper EXCEPT !.pc = "store_waveforms"]
  /\ UNCHANGED <<feed, result_buffer, results_slot, poller, snap_flags,
                 streamLog>>
  /\ UNCHANGED notSnap

\* *results_guard = Some(result_buffer.clone()), first part: the waveform
\* fields replace those of the slot.
SnapStoreWaveforms ==
  /\ snapper.pc = "store_waveforms"
  /\ results_slot' =
       [some |-> TRUE,
        value |-> [results_slot.value EXCEPT
                     !.input_waveform = result_buffer.input_waveform,
                     !.filtered_waveform = result_buffer.filtered_waveform,
                     !.waveform_len = result_buffer.waveform_len]]
  /\ snapper' = [snapper EXCEPT !.pc = "store_spectrum"]
  /\ UNCHANGED <<feed, result_buffer, results_mutex, poller, snap_flags,
                 streamLog>>
  /\ UNCHANGED notSnap

\* *results_guard = Some(result_buffer.clone()), second part: the spectrum
\* fields; the guard is dropped and the loop goes on.
SnapStoreSpectrum ==
  /\ snapper.pc = "store_spectrum"
  /\ results_slot' =
       [some |-> TRUE,
        value |-> [results_slot.value EXCEPT
                     !.spectrum = result_buffer.spectrum,
                     !.spectrum_len = result_buffer.spectrum_len]]
  /\ results_mutex' = "free"
  /\ snapper' = [snapper EXCEPT !.pc = "read"]
  /\ UNCHANGED <<feed, result_buffer, poller, snap_flags, streamLog>>
  /\ UNCHANGED notSnap

\* set_bypass(b)
SnapSetBypass ==
  /\ snap_flags' = [snap_flags EXCEPT !.bypass = ~@]
  /\ UNCHANGED <<feed, snapper, result_buffer, results_slot, results_mutex,
                 poller, streamLog>>
  /\ UNCHANGED notSnap

\* get_results is called; contended records whether the processing thread
\* holds the results guard at that moment.
SnapPollCall ==
  /\ poller.pc = "idle" /\ poller.polls < MaxSnapPolls
  /\ poller' = [poller EXCEPT !.pc = "lock", !.polls = @ + 1,
                              !.contended = (results_mutex = "proc")]
  /\ UNCHANGED <<feed, snapper, result_buffer, results_slot, results_mutex,
                 snap_flags, streamLog>>
  /\ UNCHANGED notSnap

\* get_results: if let Ok(mut results_guard) = self.results.lock()
SnapPollLock ==
  /\ poller.pc = "lock"
  /\ GuardFree(results_mutex)
  /\ results_mutex' = "poll"
  /\ poller' = [poller EXCEPT !.pc = "take"]
  /\ UNCHANGED <<feed, snapper, result_buffer, results_slot, snap_flags,
                 streamLog>>
  /\ UNCHANGED notSnap

\* get_results: results_guard.take(); the guard is dropped.
SnapPollTake ==
  /\ poller.pc = "take"
  /\ poller' = [poller EXCEPT !.pc = "idle", !.got = results_slot]
  /\ results_slot' = NoResult
  /\ results_mutex' = "free"
  /\ UNCHANGED <<feed, snapper, result_buffer, snap_flags, streamLog>>
  /\ UNCHANGED notSnap

NextSnap ==
  \/ SnapCapture \/ SnapRead \/ SnapBypass \/ SnapChain \/ SnapAnalyze
  \/ SnapAssemble \/ SnapLock \/ SnapStoreWaveforms \/ SnapStoreSpectrum
  \/ SnapSetBypass \/ SnapPollCall \/ SnapPollLock \/ SnapPollTake

(* ------------------------ claims on the data path ---------------------- *)

\* Every field of the snapshot that holds valid data was written for the
\* block of its input waveform.
Whole(s) ==
  LET b == s.input_waveform.block
  IN  /\ b > 0
      /\ s.filtered_waveform.block = b
      /\ s.waveform_len.block = b
      /\ s.spectrum_len.block = b
      /\ s.waveform_len.len = s.input_waveform.len
      /\ s.spectrum_len.len > 0 => s.spectrum = b

\* C34: a snapshot returned by get_results is never torn: its input
\* waveform, filtered waveform, spectrum and valid lengths were all written
\* for one and the same block, also when the processing thread publishes the
\* next block while get_results is under way.
C34_SnapshotWhole == poller.got.some => Whole(poller.got.value)

\* get_results was called while the processing thread held the results guard
\* in the middle of a store that overwrote an earlier snapshot, and has
\* returned the snapshot of the block being stored, with its spectrum.
C34_Witness ==
  /\ poller.pc = "idle" /\ poller.contended
  /\ poller.got.some
  /\ poller.got.value.input_waveform.block = snapper.block
  /\ snapper.block >= 2
  /\ poller.got.value.spectrum = snapper.block

\* The blocks read so far whose filter-chain pass is not still ahead and
\* that were not bypassed.
Chained ==
  {i \in 1..Len(streamLog.waves) :
     /\ i \notin streamLog.skipped
     /\ i < snapper.block \/ snapper.pc \notin {"bypass", "chain"}}

ChanOff ==
  /\ cap = 1 /\ slots = [i \in 0..0 |-> 0] /\ head = 0 /\ tail = 0
  /\ wpc = "idle" /\ wbuf = <<>> /\ wn = 0 /\ wret = 0
  /\ rpc = "idle" /\ rlen = 0 /\ rn = 0 /\ rbuf = <<>> /\ rret = 0
  /\ offered = 0 /\ accepted = <<>> /\ readLog = <<>>
  /\ wfree = 0 /\ ravail = 0 /\ wdone = FALSE /\ rdone = FALSE
  /\ ovfFresh = -1 /\ rchk = -1

\* The filter part at rest, for the specifications that do not exercise it.
FirOff ==
  /\ fh = <<1>> /\ firState = [i \in 0..0 |-> 0] /\ firCursor = 0
  /\ fastBlock = 1 /\ fastFft = 1 /\ fastOverlap = <<>>
  /\ firIn = <<>> /\ firOut = <<>> /\ fastOut = <<>> /\ firBlocks = 0

\* The processor part at rest, for the specifications that do not exercise it.
ProcOff == InitProc

\* The gate part at rest, for the specifications that do not exercise it.
GateOff ==
  /\ ngate = GateNew(0, 0, 0) /\ gop = "new" /\ gbefore = ngate
  /\ gio = [input |-> 0, output |-> 0]

\* The chain part at rest, for the specifications that do not exercise it.
DsgOff == InitDsg

\* The lifecycle part at rest, for the specifications that do not exercise it.
LifeOff == InitLife

\* The filter objects at rest, for the specifications that do not exercise them.
TdfOff ==
  /\ tdf = FirNew(<<1>>) /\ fastf = FastNew(<<1>>, 1)
  /\ fed = <<>> /\ twin = NoTwin /\ fcall = NoFilterCall /\ fcalls = 0

\* The processing loop at rest, for the specifications that do not exercise it.
LoopOff == InitLoop

\* The designers at rest, for the specifications that do not exercise them.
CoefOff == InitCoef

\* The data path at rest, for the specifications that do not exercise it.
SnapOff == SnapSpawned(TRUE)

\* An AudioRingBuffer of some capacity, freshly split; the rest idle.
ChanStart == InitChan /\ FirOff /\ ProcOff /\ GateOff /\ DsgOff /\ LifeOff /\ TdfOff /\ LoopOff /\ CoefOff /\ SnapOff

\* Two filters freshly built from the same coefficients; the rest idle.
FirStart == InitFir /\ ChanOff /\ ProcOff /\ GateOff /\ DsgOff /\ LifeOff /\ TdfOff /\ LoopOff /\ CoefOff /\ SnapOff

\* A freshly constructed AudioProcessor; the rest idle.
ProcStart == InitProc /\ ChanOff /\ FirOff /\ GateOff /\ DsgOff /\ LifeOff /\ TdfOff /\ LoopOff /\ CoefOff /\ SnapOff

\* A freshly built NoiseGate; the rest idle.
GateStart == InitGate /\ ChanOff /\ FirOff /\ ProcOff /\ DsgOff /\ LifeOff /\ TdfOff /\ LoopOff /\ CoefOff /\ SnapOff

\* The filter chain of a new processor; the rest idle.
DsgStart == InitDsg /\ ChanOff /\ FirOff /\ ProcOff /\ GateOff /\ LifeOff /\ TdfOff /\ LoopOff /\ CoefOff /\ SnapOff

\* A new processor, no thread spawned; the rest idle.
LifeBegin == InitLife /\ ChanOff /\ FirOff /\ ProcOff /\ GateOff /\ DsgOff /\ TdfOff /\ LoopOff /\ CoefOff /\ SnapOff

\* A FirFilter and a FastFirFilter freshly built; the rest idle.
TdfStart == InitTdf /\ ChanOff /\ FirOff /\ ProcOff /\ GateOff /\ DsgOff /\ LifeOff /\ LoopOff /\ CoefOff /\ SnapOff

\* A new processor with its loop not yet started; the rest idle.
LoopBegin == InitLoop /\ ChanOff /\ FirOff /\ ProcOff /\ GateOff /\ DsgOff /\ LifeOff /\ TdfOff /\ CoefOff /\ SnapOff

\* No coefficient vector designed yet; the rest idle.
CoefStart == InitCoef /\ ChanOff /\ FirOff /\ ProcOff /\ GateOff /\ DsgOff /\ LifeOff /\ TdfOff /\ LoopOff /\ SnapOff

\* A processing thread just spawned, nothing captured yet; the rest idle.
SnapStart == InitSnap /\ ChanOff /\ FirOff /\ ProcOff /\ GateOff /\ DsgOff /\ LifeOff /\ TdfOff /\ LoopOff /\ CoefOff

SpecChan == ChanStart /\ [][NextChan]_vars

SpecFir == FirStart /\ [][NextFir]_vars

Spec == ProcStart /\ [][NextProc]_vars

SpecGate == GateStart /\ [][NextGate]_vars

SpecDesign == DsgStart /\ [][NextDsg]_vars

SpecLife == LifeBegin /\ [][NextLife]_vars

SpecTdf == TdfStart /\ [][NextTdf]_vars

SpecLoop == LoopBegin /\ [][NextLoop]_vars

SpecLoopFair == LoopBegin /\ [][NextLoop]_vars /\ LoopFairness

SpecCoef == CoefStart /\ [][NextCoef]_vars

SpecSnap == SnapStart /\ [][NextSnap]_vars

=============================================================================
